---------------------------- MODULE Spec2Model ----------------------------
(***************************************************************************)
(* Model of the diff-digest streaming analysis pipeline:                   *)
(*   src/src/app/api/analyze-diff/route.ts  (POST: one streaming session)  *)
(*   src/src/lib/stream-handler.ts          (StreamManager, filters, rank) *)
(*   src/src/app/api/sample-diffs/route.ts  (GET: listing pull requests)   *)
(*   src/unnamed/part_001                   (api-utils: isAbortError, ...) *)
(*   src/src/hooks/useDiffAnalysis.ts       (the client's read loop)       *)
(*                                                                         *)
(* Text is modelled as it is in the program, as a sequence of pieces whose *)
(* concatenation is the JavaScript string.  Titles and error messages are  *)
(* sequences of one-character strings.  Backend output is a sequence of    *)
(* lexical pieces: "{", "}", ",", " ", ".", "!", "?", pieces of plain text *)
(* and JSON members such as "\"developer\":\"fix bug\"".  No piece other   *)
(* than "{" and "}" contains a brace and no piece other than ".", "!" and  *)
(* "?" contains sentence punctuation, so the regular expressions of the    *)
(* code act on pieces exactly as they act on characters.                   *)
(***************************************************************************)
EXTENDS Integers, Sequences, FiniteSets, TLC

VARIABLES
    pc,             \* position of POST / ReadableStream.start
    req,            \* the request body: diffId, diffContent present?, description
    status,         \* HTTP status of the response (0: none yet)
    isClosed,       \* route.ts:49
    aborted,        \* abortController.signal.aborted, route.ts:50
    ctrl,           \* state of the ReadableStream controller
    events,         \* events enqueued on the controller, in order
    responseQueue,  \* route.ts:43
    currentJson,    \* route.ts:44
    notesFound,     \* route.ts:45
    backend,        \* the backend stream: chunks delivered so far
    hist,           \* history of the session, for stating the claims
    mgr,            \* a StreamManager and the stream of createSSEStream
    hook,           \* the read loop of useDiffAnalysis and its network
    pair,           \* two POST invocations in flight at once
    lib             \* the library functions: filters, ranking, truncation, listing

vars == <<pc, req, status, isClosed, aborted, ctrl, events, responseQueue,
          currentJson, notesFound, backend, hist, mgr, hook, pair, lib>>

---------------------------------------------------------------------------
(* Bounds of the model and constants of the program.                       *)

\* Longest backend stream made of plain chunks only.
MaxChunks == 6

\* Longest backend stream that may hold any chunk of Chunks.
MaxRich == 2

\* Longest backend stream made of the chunks of TextChunks only.
MaxText == 11

\* route.ts:158  if (responseQueue.length >= 5)
BatchThreshold == 5

\* route.ts:261  s.trim().length > 10
MinSentenceLen == 10

---------------------------------------------------------------------------
(* Strings as sequences of characters.                                     *)

UpperChars ==
    <<"A","B","C","D","E","F","G","H","I","J","K","L","M","N","O","P","Q","R","S","T","U","V","W","X","Y","Z">>

LowerChars ==
    <<"a","b","c","d","e","f","g","h","i","j","k","l","m","n","o","p","q","r","s","t","u","v","w","x","y","z">>

\* String.prototype.toLowerCase, on the characters A-Z.
ToLowerCase(s) ==
    [i \in 1..Len(s) |->
        IF \E k \in 1..Len(UpperChars) : UpperChars[k] = s[i]
        THEN LowerChars[CHOOSE k \in 1..Len(UpperChars) : UpperChars[k] = s[i]]
        ELSE s[i]]

\* String.prototype.includes (case-sensitive substring search).
Includes(s, sub) ==
    \E i \in 0..Len(s) :
        /\ i + Len(sub) <= Len(s)
        /\ SubSeq(s, i + 1, i + Len(sub)) = sub

\* String.prototype.startsWith.
StartsWith(s, sub) ==
    /\ Len(sub) <= Len(s)
    /\ SubSeq(s, 1, Len(sub)) = sub

SubAborted ==
    <<"a","b","o","r","t","e","d">>

SubECONNRESET ==
    <<"E","C","O","N","N","R","E","S","E","T">>

SubTestTag ==
    <<"[","t","e","s","t","]">>

SubCiTag ==
    <<"[","c","i","]">>

SubReadme ==
    <<"r","e","a","d","m","e">>

SubBump ==
    <<"b","u","m","p"," ">>

---------------------------------------------------------------------------
(* The fast-path relevance filter, stream-handler.ts:327-345.              *)

\* shouldIncludePR reading the title as it was typed.
shouldIncludePR_NoLowerCase(description) ==
    LET t == description
    IN  IF Includes(t, SubTestTag) THEN FALSE
        ELSE IF Includes(t, SubCiTag) THEN FALSE
        ELSE IF Includes(t, SubReadme) THEN FALSE
        ELSE IF StartsWith(t, SubBump) THEN FALSE
        ELSE TRUE

shouldIncludePR(description) ==
    LET t == ToLowerCase(description)
    IN  IF Includes(t, SubTestTag) THEN FALSE
        ELSE IF Includes(t, SubCiTag) THEN FALSE
        ELSE IF Includes(t, SubReadme) THEN FALSE
        ELSE IF StartsWith(t, SubBump) THEN FALSE
        \* the quick inclusions (fix, feat, perf, breaking, api) and the
        \* default all return true
        ELSE TRUE

---------------------------------------------------------------------------
(* Requests.                                                               *)

TitleDocsReadme ==
    <<"d","o","c","s",":"," ","u","p","d","a","t","e"," ","r","e","a","d","m","e">>

TitleFixParser ==
    <<"f","i","x",":"," ","n","u","l","l"," ","p","o","i","n","t","e","r"," ","i","n"," ","p","a","r","s","e","r">>

TitleBump ==
    <<"B","u","m","p"," ","l","o","d","a","s","h"," ","f","r","o","m"," ","1"," ","t","o"," ","2">>

TitleCI ==
    <<"[","C","I","]"," ","c","a","c","h","e">>

Titles == {TitleDocsReadme, TitleFixParser, TitleBump, TitleCI}

DiffIds == {"pr-1", "pr-2"}

\* The body of a request, route.ts:24.  hasDiff: diffContent is present and
\* non-empty (route.ts:26 tests its truthiness only).
Requests == [diffId : DiffIds, hasDiff : BOOLEAN, description : Titles]

---------------------------------------------------------------------------
(* Exceptions.  isError: the thrown value is an instance of Error.         *)

\* 'Request was aborted.'
MsgAborted ==
    <<"R","e","q","u","e","s","t"," ","w","a","s"," ","a","b","o","r","t","e","d",".">>

\* 'This operation was cancelled'
MsgCancelled ==
    <<"T","h","i","s"," ","o","p","e","r","a","t","i","o","n"," ","w","a","s"," ","c","a","n","c","e","l","l","e","d">>

MsgConnReset ==
    <<"r","e","a","d"," ","E","C","O","N","N","R","E","S","E","T">>

MsgRateLimit ==
    <<"r","a","t","e"," ","l","i","m","i","t">>

MsgUnknownAnalysis ==
    <<"U","n","k","n","o","w","n"," ","e","r","r","o","r"," ","d","u","r","i","n","g"," ","a","n","a","l","y","s","i","s">>

ErrAbortName == [isError |-> TRUE, name |-> "AbortError", message |-> MsgCancelled]

ErrAbortedMsg == [isError |-> TRUE, name |-> "Error", message |-> MsgAborted]

ErrConnReset == [isError |-> TRUE, name |-> "Error", message |-> MsgConnReset]

ErrRateLimit == [isError |-> TRUE, name |-> "Error", message |-> MsgRateLimit]

\* A thrown value that is no Error (throw 'aborted'): its fields are not read.
ErrNotAnError == [isError |-> FALSE, name |-> "", message |-> SubAborted]

Errors == {ErrAbortName, ErrAbortedMsg, ErrConnReset, ErrRateLimit, ErrNotAnError}

\* api-utils isAbortError, part_001:49-58; the same test is written out in the
\* stream catch, route.ts:210-213.
isAbortError(e) ==
    /\ e.isError
    /\ \/ e.name = "AbortError"
       \/ Includes(e.message, SubAborted)
       \/ Includes(e.message, SubECONNRESET)

\* The test of the setup catch (route.ts:133-134) and of the outer catch
\* (route.ts:294-295): the name or "aborted", not "ECONNRESET".
IsAbortedNoReset(e) ==
    /\ e.isError
    /\ \/ e.name = "AbortError"
       \/ Includes(e.message, SubAborted)

---------------------------------------------------------------------------
(* JavaScript values read out of a parsed object.  t is the type, s the    *)
(* text of the value as a sequence of pieces: for a string its characters, *)
(* for a number its digits, for an array of strings its elements, for an   *)
(* object the text JSON.stringify writes between its braces.               *)

Undefined == [t |-> "undefined", s |-> <<>>]

JStr(s) == [t |-> "string", s |-> s]

JNull == [t |-> "null", s |-> <<>>]

\* An object that refers to itself: JSON.stringify throws on it.
Cyclic == [t |-> "cyclic", s |-> <<>>]

\* ToBoolean, as used by || and by if (...).
Truthy(v) ==
    CASE v.t = "undefined" -> FALSE
      [] v.t = "null"      -> FALSE
      [] v.t = "string"    -> v.s # <<>>
      [] v.t = "number"    -> v.s # <<"0">>
      [] OTHER             -> TRUE     \* arrays and objects

\* a || b
Or(a, b) == IF Truthy(a) THEN a ELSE b

PlaceholderDeveloper == JStr(<<"No developer notes generated", ".">>)

PlaceholderMarketing == JStr(<<"No marketing notes generated", ".">>)

---------------------------------------------------------------------------
(* Pieces of backend output.                                               *)

LB == "{"

RB == "}"

Punct == {".", "!", "?"}

\* Characters that have no notation in a string of the model, each a piece
\* of its own that counts as one character.
LineSep == "<U+2028>"

ParaSep == "<U+2029>"

\* LineTerminator of ECMAScript: what `.` without the flag s refuses.
LineTerminators == {"\n", "\r", LineSep, ParaSep}

VTab == "<U+000B>"

Nbsp == "<U+00A0>"

Bom == "<U+FEFF>"

SpaceSeparators ==
    {" ", Nbsp, "<U+1680>", "<U+2000>", "<U+2001>", "<U+2002>", "<U+2003>",
     "<U+2004>", "<U+2005>", "<U+2006>", "<U+2007>", "<U+2008>", "<U+2009>",
     "<U+200A>", "<U+202F>", "<U+205F>", "<U+3000>"}

\* What String.prototype.trim removes: WhiteSpace and LineTerminator of
\* ECMAScript.  A white space character is a piece of its own.
Whitespace == SpaceSeparators \cup {"\t", "\n", "\r", "\f", VTab, Bom, LineSep, ParaSep}

\* What JSON.parse skips between tokens.
JsonWhitespace == {" ", "\t", "\n", "\r"}

\* JSON members, each one piece: its key and its value.
MemberTable ==
    [p \in {"\"developer\":\"fix bug\"", "\"marketing\":\"better app\"",
            "\"developer\":\"\"", "\"marketing\":\"\"",
            "\"developer\":[\"a\",\"b\"]", "\"developerNotes\":5",
            "\"devNotes\":[\"a\",\"b\"]",
            "\"userNotes\":\"hi\"", "\"a\":1"} |->
        CASE p = "\"developer\":\"fix bug\""     -> [key |-> "developer", val |-> JStr(<<"fix bug">>)]
          [] p = "\"marketing\":\"better app\""  -> [key |-> "marketing", val |-> JStr(<<"better app">>)]
          [] p = "\"developer\":\"\""            -> [key |-> "developer", val |-> JStr(<<>>)]
          [] p = "\"marketing\":\"\""            -> [key |-> "marketing", val |-> JStr(<<>>)]
          [] p = "\"developer\":[\"a\",\"b\"]"   -> [key |-> "developer", val |-> [t |-> "array", s |-> <<"a", "b">>]]
          [] p = "\"devNotes\":[\"a\",\"b\"]"    -> [key |-> "devNotes", val |-> [t |-> "array", s |-> <<"a", "b">>]]
          [] p = "\"developerNotes\":5"          -> [key |-> "developerNotes", val |-> [t |-> "number", s |-> <<"5">>]]
          [] p = "\"userNotes\":\"hi\""          -> [key |-> "userNotes", val |-> JStr(<<"hi">>)]
          [] OTHER                               -> [key |-> "a", val |-> [t |-> "number", s |-> <<"1">>]]]

\* A key and its colon, to be followed by a nested object.
KeyTable ==
    [p \in {"\"developer\":", "\"developerNotes\":", "\"meta\":"} |->
        CASE p = "\"developer\":"      -> "developer"
          [] p = "\"developerNotes\":" -> "developerNotes"
          [] OTHER                     -> "meta"]

IsBrace(p) == p = LB \/ p = RB

\* Index of the first brace of text at or after position i, 0 when none.
RECURSIVE NextBrace(_, _)
NextBrace(text, i) ==
    IF i > Len(text) THEN 0
    ELSE IF IsBrace(text[i]) THEN i
    ELSE NextBrace(text, i + 1)

Count(text, p) == Cardinality({i \in 1..Len(text) : text[i] = p})

\* route.ts:433-438
isLikelyJsonComplete(text) ==
    LET openBraces  == Count(text, LB)
        closeBraces == Count(text, RB)
    IN  openBraces > 0 /\ openBraces = closeBraces

\* Position after the longest run of adjacent groups {[^{}]*} that starts at
\* position p: the ({[^{}]*})* of the pattern of route.ts:445.
RECURSIVE SkipGroups(_, _)
SkipGroups(text, p) ==
    IF p <= Len(text) /\ text[p] = LB
    THEN LET q == NextBrace(text, p + 1)
         IN  IF q # 0 /\ text[q] = RB THEN SkipGroups(text, q + 1) ELSE p
    ELSE p

\* Where a match of /{[^{}]*({[^{}]*})*[^{}]*}/ that starts at the "{" of
\* position i ends, 0 when there is none.  After the opening brace and the
\* non-braces that follow it, the next piece is "}" (the match ends) or "{":
\* then at least one group must match, and after the last group and the
\* non-braces that follow it the next piece must be "}".
MatchEnd(text, i) ==
    LET j == NextBrace(text, i + 1)
    IN  IF j = 0 THEN 0
        ELSE IF text[j] = RB THEN j
        ELSE LET p == SkipGroups(text, j)
                 m == NextBrace(text, p)
             IN  IF p = j THEN 0
                 ELSE IF m # 0 /\ text[m] = RB THEN m
                 ELSE 0

\* text.match(jsonPattern) with the g flag: the matches from left to right,
\* each search resuming after the previous match.
RECURSIVE Matches(_, _)
Matches(text, i) ==
    IF i > Len(text) THEN <<>>
    ELSE IF text[i] = LB /\ MatchEnd(text, i) # 0
         THEN <<SubSeq(text, i, MatchEnd(text, i))>> \o Matches(text, MatchEnd(text, i) + 1)
         ELSE Matches(text, i + 1)

NoWhitespace(text) == SelectSeq(text, LAMBDA p : p \notin JsonWhitespace)

ParseFail == [ok |-> FALSE, members |-> <<>>]

\* Index of the "}" that closes the object whose "{" stands before position
\* i, depth objects being open there; 0 when there is none.
RECURSIVE MatchingClose(_, _, _)
MatchingClose(s, i, depth) ==
    IF i > Len(s) THEN 0
    ELSE IF s[i] = LB THEN MatchingClose(s, i + 1, depth + 1)
    ELSE IF s[i] = RB THEN IF depth = 1 THEN i ELSE MatchingClose(s, i + 1, depth - 1)
    ELSE MatchingClose(s, i + 1, depth)

\* The text JSON.stringify writes between the braces of an object with
\* these members: a key stands where it first occurs, with the value of
\* its last occurrence.
RECURSIVE Canon(_, _)
Canon(members, i) ==
    IF i > Len(members) THEN <<>>
    ELSE LET key   == members[i].key
             first == \A k \in 1..(i - 1) : members[k].key # key
             same  == {k \in i..Len(members) : members[k].key = key}
             last  == CHOOSE k \in same : \A m \in same : m <= k
             rest  == Canon(members, i + 1)
         IN  IF ~first THEN rest
             ELSE members[last].lit \o (IF rest = <<>> THEN <<>> ELSE <<",">> \o rest)

\* A list of members, member ("," member)*, each a member piece or a key
\* followed by an object.  lit is the text of the member as JSON.stringify
\* writes it.
RECURSIVE ParseMembers(_)
ParseMembers(s) ==
    IF s = <<>> THEN ParseFail
    ELSE LET flat   == Head(s) \in DOMAIN MemberTable
             close  == IF Head(s) \in DOMAIN KeyTable /\ Len(s) >= 3 /\ s[2] = LB
                       THEN MatchingClose(s, 3, 1) ELSE 0
             inner  == IF close = 0 THEN ParseFail
                       ELSE IF close = 3 THEN [ok |-> TRUE, members |-> <<>>]
                       ELSE ParseMembers(SubSeq(s, 3, close - 1))
             text   == Canon(inner.members, 1)
             one    == IF flat
                       THEN [key |-> MemberTable[Head(s)].key,
                             val |-> MemberTable[Head(s)].val,
                             lit |-> <<Head(s)>>]
                       ELSE [key |-> KeyTable[Head(s)],
                             val |-> [t |-> "object", s |-> text],
                             lit |-> <<Head(s), LB>> \o text \o <<RB>>]
             rest   == IF flat THEN Tail(s) ELSE SubSeq(s, close + 1, Len(s))
         IN  IF ~flat /\ ~inner.ok THEN ParseFail
             ELSE IF rest = <<>> THEN [ok |-> TRUE, members |-> <<one>>]
             ELSE IF Head(rest) # "," THEN ParseFail
             ELSE LET r == ParseMembers(Tail(rest))
                  IN  IF r.ok THEN [ok |-> TRUE, members |-> <<one>> \o r.members]
                      ELSE ParseFail

\* JSON.parse of a candidate: "{" members "}" with whitespace between the
\* tokens ignored; ok is false where JSON.parse throws.
JSONParse(candidate) ==
    LET s == NoWhitespace(candidate)
    IN  IF Len(s) < 2 \/ Head(s) # LB \/ s[Len(s)] # RB THEN ParseFail
        ELSE IF Len(s) = 2 THEN [ok |-> TRUE, members |-> <<>>]
        ELSE ParseMembers(SubSeq(s, 2, Len(s) - 1))

\* parsedJson[key]: the value of the last member with that key.
Get(parsed, key) ==
    LET idx == {i \in 1..Len(parsed.members) : parsed.members[i].key = key}
    IN  IF idx = {} THEN Undefined
        ELSE parsed.members[CHOOSE i \in idx : \A k \in idx : k <= i].val

NoMatch == <<>>

\* The first element of candidates that JSON.parse accepts, route.ts:453-461.
RECURSIVE FirstValid(_)
FirstValid(candidates) ==
    IF candidates = <<>> THEN NoMatch
    ELSE IF JSONParse(Head(candidates)).ok THEN Head(candidates)
    ELSE FirstValid(Tail(candidates))

\* route.ts:443-464; NoMatch stands for null (a match is never empty).
extractJsonObject(text) == FirstValid(Matches(text, 1))

---------------------------------------------------------------------------
(* The sentence fallback, route.ts:261.                                    *)

\* currentJson.split(/\.|\!|\?/): the fragments between punctuation.
RECURSIVE Split(_, _)
Split(text, acc) ==
    IF text = <<>> THEN <<acc>>
    ELSE IF Head(text) \in Punct THEN <<acc>> \o Split(Tail(text), <<>>)
    ELSE Split(Tail(text), Append(acc, Head(text)))

\* String.prototype.trim
RECURSIVE Trim(_)
Trim(s) ==
    IF s = <<>> THEN s
    ELSE IF Head(s) \in Whitespace THEN Trim(Tail(s))
    ELSE IF s[Len(s)] \in Whitespace THEN Trim(SubSeq(s, 1, Len(s) - 1))
    ELSE s

\* The length of a text in characters.
RECURSIVE Length(_)
Length(s) ==
    IF s = <<>> THEN 0
    ELSE (IF Head(s) \in Whitespace THEN 1 ELSE Len(Head(s))) + Length(Tail(s))

Sentences(text) ==
    SelectSeq(Split(text, <<>>), LAMBDA f : Length(Trim(f)) > MinSentenceLen)

---------------------------------------------------------------------------
(* Events (types/diff-analyzer.ts:16-22) as they are passed to             *)
(* JSON.stringify, one record shape for all types.                         *)

Event(type) ==
    [type |-> type, diffId |-> "", text |-> <<>>,
     developer |-> Undefined, marketing |-> Undefined, error |-> <<>>]

StartEvent(diffId) == [Event("start") EXCEPT !.diffId = diffId]

\* 'PR is not relevant, skipping analysis.'
MessageEvent == [Event("message") EXCEPT !.text = <<"PR is not relevant, skipping analysis", ".">>]

ProgressEvent(text) == [Event("progress") EXCEPT !.text = text]

NotesEvent(developer, marketing) ==
    [Event("notes") EXCEPT !.developer = developer, !.marketing = marketing]

CompleteEvent == Event("complete")

\* route.ts:310
ErrorEvent(e) ==
    [Event("error") EXCEPT !.error = IF e.isError THEN e.message ELSE MsgUnknownAnalysis]

\* responseQueue.join('')
RECURSIVE Join(_)
Join(queue) == IF queue = <<>> THEN <<>> ELSE Head(queue) \o Join(Tail(queue))

---------------------------------------------------------------------------
(* The state of one session as a record, and the steps of                  *)
(* ReadableStream.start as operators on it.  S.ops is the history of what  *)
(* the session did, in order: the type of every event the controller took, *)
(* "filter", "create", "extract", "final", "finalExtract",                 *)
(* "controller.close".                                                     *)

Did(S, op) == [S EXCEPT !.hist.ops = Append(@, op)]

\* route.ts:56-68.  controller.enqueue throws unless the stream is readable.

\* Bookkeeping: a candidate extraction is attempted on S.currentJson
\* (route.ts:174 mid-stream, route.ts:228 at the end); balanced is what
\* isLikelyJsonComplete says of the buffer, found whether notes came of it.
Attempted(S, op, at, found) ==
    [Did(S, op) EXCEPT !.hist.attempts =
        Append(@, [at |-> at, balanced |-> isLikelyJsonComplete(S.currentJson),
                   found |-> found])]

safeEnqueue(S, ev) ==
    IF ~S.isClosed
    THEN IF S.ctrl = "readable"
         THEN Did([S EXCEPT !.events = Append(@, ev)], ev.type)
         ELSE [S EXCEPT !.isClosed = TRUE, !.hist.enqueueRejected = TRUE]
    ELSE S

\* safeClose without the if (!isClosed) of route.ts:72.
safeClose_NoGuard(S) ==
    LET T == Did(S, "controller.close")
    IN  IF S.ctrl = "readable"
        THEN [T EXCEPT !.ctrl = "closed", !.isClosed = TRUE]
        ELSE [T EXCEPT !.isClosed = TRUE]

\* route.ts:71-81.  controller.close throws unless the stream is readable.
safeClose(S) ==
    IF ~S.isClosed
    THEN LET T == Did(S, "controller.close")
         IN  IF S.ctrl = "readable"
             THEN [T EXCEPT !.ctrl = "closed", !.isClosed = TRUE]
             ELSE [T EXCEPT !.isClosed = TRUE]
    ELSE S

\* tryExtractMidStream without notesFound = true (route.ts:196).
tryExtractMidStream_NoFlag(S) ==
    IF ~S.notesFound /\ isLikelyJsonComplete(S.currentJson)
    THEN LET jsonMatch == extractJsonObject(S.currentJson)
             parsed    == JSONParse(jsonMatch)
             developer == Get(parsed, "developer")
             marketing == Get(parsed, "marketing")
             valid     == /\ jsonMatch # NoMatch /\ parsed.ok
                          /\ developer.t = "string" /\ marketing.t = "string"
             S1        == Attempted(S, "extract", "mid", valid)
         IN  IF valid
             THEN LET S2 == safeEnqueue(S1, NotesEvent(developer, marketing))
                  IN  [S |-> S2, brk |-> S2.isClosed]
             ELSE [S |-> S1, brk |-> FALSE]
    ELSE [S |-> S, brk |-> FALSE]

\* tryExtractMidStream without the isLikelyJsonComplete of route.ts:172.
tryExtractMidStream_NoBalance(S) ==
    IF ~S.notesFound
    THEN LET jsonMatch == extractJsonObject(S.currentJson)
             parsed    == JSONParse(jsonMatch)
             developer == Get(parsed, "developer")
             marketing == Get(parsed, "marketing")
             valid     == /\ jsonMatch # NoMatch /\ parsed.ok
                          /\ developer.t = "string" /\ marketing.t = "string"
             S1        == Attempted(S, "extract", "mid", valid)
         IN  IF valid
             THEN LET S2 == [safeEnqueue(S1, NotesEvent(developer, marketing))
                                EXCEPT !.notesFound = TRUE]
                  IN  [S |-> S2, brk |-> S2.isClosed]
             ELSE [S |-> S1, brk |-> FALSE]
    ELSE [S |-> S, brk |-> FALSE]

\* tryExtractMidStream without the try/catch of route.ts:173-204: a
\* candidate that fails validation goes to the outer catch as an exception.
tryExtractMidStream_NoCatch(S) ==
    IF ~S.notesFound /\ isLikelyJsonComplete(S.currentJson)
    THEN LET jsonMatch == extractJsonObject(S.currentJson)
             parsed    == JSONParse(jsonMatch)
             developer == Get(parsed, "developer")
             marketing == Get(parsed, "marketing")
             valid     == /\ jsonMatch # NoMatch /\ parsed.ok
                          /\ developer.t = "string" /\ marketing.t = "string"
             S1        == Attempted(S, "extract", "mid", valid)
         IN  IF valid
             THEN LET S2 == [safeEnqueue(S1, NotesEvent(developer, marketing))
                                EXCEPT !.notesFound = TRUE]
                  IN  [S |-> S2, brk |-> S2.isClosed]
             ELSE [S |-> safeClose(safeEnqueue(S1, Event("error"))), brk |-> TRUE]
    ELSE [S |-> S, brk |-> FALSE]

\* route.ts:171-205: the extraction attempted after a content-bearing chunk.
\* brk: the loop is left (route.ts:198).
tryExtractMidStream(S) ==
    IF ~S.notesFound /\ isLikelyJsonComplete(S.currentJson)
    THEN LET jsonMatch == extractJsonObject(S.currentJson)
             parsed    == JSONParse(jsonMatch)
             developer == Get(parsed, "developer")
             marketing == Get(parsed, "marketing")
             valid     == /\ jsonMatch # NoMatch /\ parsed.ok
                          /\ developer.t = "string" /\ marketing.t = "string"
             S1        == Attempted(S, "extract", "mid", valid)
         IN  IF valid
             THEN LET S2 == [safeEnqueue(S1, NotesEvent(developer, marketing))
                                EXCEPT !.notesFound = TRUE]
                  IN  [S |-> S2, brk |-> S2.isClosed]
             ELSE [S |-> S1, brk |-> FALSE]
    ELSE [S |-> S, brk |-> FALSE]

\* loopBody without the test of route.ts:145.
loopBody_NoAbortCheck(S, isAborted, content) ==
    IF content = <<>> THEN [S |-> S, brk |-> FALSE]
    ELSE LET S1 == [S EXCEPT !.responseQueue = Append(@, content),
                             !.currentJson = @ \o content,
                             !.hist.contents = Append(@, content)]
             S2 == IF Len(S1.responseQueue) >= BatchThreshold
                   THEN [safeEnqueue(S1, ProgressEvent(Join(S1.responseQueue)))
                            EXCEPT !.responseQueue = <<>>]
                   ELSE S1
         IN  IF Len(S1.responseQueue) >= BatchThreshold /\ S2.isClosed
             THEN [S |-> S2, brk |-> TRUE]
             ELSE tryExtractMidStream(S2)

\* loopBody with responseQueue.length > 5 for the >= 5 of route.ts:158.
loopBody_FlushLate(S, isAborted, content) ==
    IF S.isClosed \/ isAborted THEN [S |-> S, brk |-> TRUE]
    ELSE IF content = <<>> THEN [S |-> S, brk |-> FALSE]
    ELSE LET S1 == [S EXCEPT !.responseQueue = Append(@, content),
                             !.currentJson = @ \o content,
                             !.hist.contents = Append(@, content)]
             S2 == IF Len(S1.responseQueue) > BatchThreshold
                   THEN [safeEnqueue(S1, ProgressEvent(Join(S1.responseQueue)))
                            EXCEPT !.responseQueue = <<>>]
                   ELSE S1
         IN  IF Len(S1.responseQueue) > BatchThreshold /\ S2.isClosed
             THEN [S |-> S2, brk |-> TRUE]
             ELSE tryExtractMidStream(S2)

\* route.ts:143-207: the body of the loop for one chunk.
loopBody(S, isAborted, content) ==
    IF S.isClosed \/ isAborted THEN [S |-> S, brk |-> TRUE]
    ELSE IF content = <<>> THEN [S |-> S, brk |-> FALSE]
    ELSE LET S1 == [S EXCEPT !.responseQueue = Append(@, content),
                             !.currentJson = @ \o content,
                             !.hist.contents = Append(@, content)]
             S2 == IF Len(S1.responseQueue) >= BatchThreshold
                   THEN [safeEnqueue(S1, ProgressEvent(Join(S1.responseQueue)))
                            EXCEPT !.responseQueue = <<>>]
                   ELSE S1
         IN  IF Len(S1.responseQueue) >= BatchThreshold /\ S2.isClosed
             THEN [S |-> S2, brk |-> TRUE]
             ELSE tryExtractMidStream(S2)

\* Array.prototype.join(separator) of an array of strings.
RECURSIVE JoinWith(_, _)
JoinWith(items, separator) ==
    IF items = <<>> THEN <<>>
    ELSE IF Len(items) = 1 THEN <<Head(items)>>
    ELSE <<Head(items), separator>> \o JoinWith(Tail(items), separator)

\* route.ts:233-257: the permissive resolution of the two fields.
resolveField(parsed, key, alt1, alt2) ==
    LET v == Get(parsed, key)
    IN  IF v.t = "string" THEN v
        ELSE IF v.t = "array" THEN JStr(JoinWith(v.s, " "))
        ELSE Or(Or(Get(parsed, alt1), Get(parsed, alt2)), JStr(<<>>))

\* finalExtraction without the !notesFound of route.ts:226.
finalExtraction_IgnoreFound(S) ==
    IF S.currentJson # <<>>
    THEN LET S1        == Did(S, "finalExtract")
             jsonMatch == extractJsonObject(S.currentJson)
             parsed    == JSONParse(jsonMatch)
             developer == resolveField(parsed, "developer", "developerNotes", "devNotes")
             marketing == resolveField(parsed, "marketing", "marketingNotes", "userNotes")
         IN  IF jsonMatch # NoMatch /\ (Truthy(developer) \/ Truthy(marketing))
             THEN [safeEnqueue(S1, NotesEvent(Or(developer, PlaceholderDeveloper),
                                              Or(marketing, PlaceholderMarketing)))
                      EXCEPT !.notesFound = TRUE]
             ELSE S1
    ELSE S

\* route.ts:225-283: the last attempt on the whole buffer.
finalExtraction(S) ==
    IF ~S.notesFound /\ S.currentJson # <<>>
    THEN LET jsonMatch == extractJsonObject(S.currentJson)
             parsed    == JSONParse(jsonMatch)
             developer == resolveField(parsed, "developer", "developerNotes", "devNotes")
             marketing == resolveField(parsed, "marketing", "marketingNotes", "userNotes")
             sentences == Sentences(S.currentJson)
             found     == IF jsonMatch # NoMatch
                          THEN Truthy(developer) \/ Truthy(marketing)
                          ELSE Len(sentences) >= 2
             S1        == Attempted(S, "finalExtract", "final", found)
         IN  IF jsonMatch # NoMatch
             THEN IF Truthy(developer) \/ Truthy(marketing)
                  THEN [safeEnqueue(S1, NotesEvent(Or(developer, PlaceholderDeveloper),
                                                   Or(marketing, PlaceholderMarketing)))
                           EXCEPT !.notesFound = TRUE]
                  ELSE S1
             ELSE IF Len(sentences) >= 2
                  THEN [safeEnqueue(S1, NotesEvent(JStr(Trim(sentences[1]) \o <<".">>),
                                                   JStr(Trim(sentences[2]) \o <<".">>)))
                           EXCEPT !.notesFound = TRUE]
                  ELSE S1
    ELSE S

\* finalize with the complete event sent before the last extraction.
finalize_CompleteFirst(S) ==
    safeClose(finalExtraction(safeEnqueue(Did(S, "final"), CompleteEvent)))

\* route.ts:225-291: what follows the loop.
finalize(S) ==
    safeClose(safeEnqueue(finalExtraction(Did(S, "final")), CompleteEvent))

\* outerCatch without the safeClose() of route.ts:313.
outerCatch_NoClose(S, e) ==
    IF IsAbortedNoReset(e) THEN safeClose(S)
    ELSE safeEnqueue(S, ErrorEvent(e))

\* route.ts:292-315: the outer catch.
outerCatch(S, e) ==
    IF IsAbortedNoReset(e) THEN safeClose(S)
    ELSE safeClose(safeEnqueue(S, ErrorEvent(e)))

\* route.ts:132-139: the catch around the backend call.
setupCatch(S, e) ==
    IF IsAbortedNoReset(e) THEN safeClose(S)
    ELSE outerCatch(S, e)

\* streamCatch issuing the backend call again before it reports.
streamCatch_Retry(S, e) ==
    IF isAbortError(e) THEN safeClose(S)
    ELSE outerCatch(Did(S, "create"), e)

\* streamCatch that reports the error and goes on to the end of start()
\* instead of rethrowing (route.ts:222).
streamCatch_FallThrough(S, e) ==
    IF isAbortError(e) THEN safeClose(S)
    ELSE finalize(safeEnqueue(S, ErrorEvent(e)))

\* route.ts:208-223: the catch around the loop.
streamCatch(S, e) ==
    IF isAbortError(e) THEN safeClose(S)
    ELSE outerCatch(S, e)

---------------------------------------------------------------------------
(* What the backend may stream.  A chunk is the text of one delta; <<>> is *)
(* a chunk without content (route.ts:150).                                 *)

DevFix == "\"developer\":\"fix bug\""

MktApp == "\"marketing\":\"better app\""

ObjectNotes == <<LB, DevFix, ",", MktApp, RB>>

TextChunk == <<"ok">>

TextChunks == {<<>>, TextChunk}

PlainChunks == TextChunks \cup {ObjectNotes}

TwoSentences == <<"Fixed a crash", ".", " ", "Improved load time", ".">>

\* The notes object as a backend writes it over several lines.
ObjectNotesLines == <<LB, "\n", DevFix, ",", "\n", MktApp, "\n", RB>>

Chunks ==
    PlainChunks \cup
    { <<LB, "\"developer\":\"\"", ",", "\"marketing\":\"\"", RB>>,
      <<LB, "\"developerNotes\":5", RB>>,
      <<LB, "\"developer\":[\"a\",\"b\"]", ",", "\"marketing\":\"\"", RB>>,
      <<LB, "\"a\":1", RB>>,
      <<LB, DevFix, ",">>,
      <<MktApp, RB>>,
      <<LB>>,
      <<"Fixed a crash", ".">>,
      <<" ", "Improved load time", ".">>,
      <<" ", "Extra sentence", ".">>,
      <<"\n", "Improved load time", ".">>,
      ObjectNotesLines,
      <<LB, "\"devNotes\":[\"a\",\"b\"]", RB>>,
      <<LB, "\"developerNotes\":", LB, "\"a\":1", RB, RB>>,
      TwoSentences }

\* The streams of the model: at most MaxText chunks of TextChunks, or at
\* most MaxChunks plain chunks, or at most MaxRich chunks of any kind.
MayDeliver(c) ==
    \/ backend.n < MaxRich
    \/ backend.n < MaxChunks /\ backend.plain /\ c \in PlainChunks
    \/ backend.n < MaxText /\ backend.text /\ c \in TextChunks

---------------------------------------------------------------------------
(* The wire format of the event channel.  A frame is a sequence of tokens; *)
(* a token is [k, s]: k = "raw" for the characters s as they stand on the  *)
(* wire, k = "esc" for the JSON-escaped form of the text piece s (it holds *)
(* no quote and no line terminator: JSON.stringify writes \n, \r and " as  *)
(* escape sequences), k = "num" for a number.                              *)

Raw(s) == [k |-> "raw", s |-> s]

NL == Raw("\n")

Quote == Raw("\"")

\* QuoteJSONString of JSON.stringify, piece by piece: U+2028 and U+2029
\* are written as they stand, everything else in a form without raw line
\* terminators and control characters.
EscapePiece(p) == IF p \in {LineSep, ParaSep} THEN Raw(p) ELSE [k |-> "esc", s |-> p]

\* JSON.stringify of a string.
StrLit(text) == <<Quote>> \o [i \in 1..Len(text) |-> EscapePiece(text[i])] \o <<Quote>>

Comma == Raw(",")

OpenArray == Raw("[")

CloseArray == Raw("]")

OpenObject == Raw("{")

NullLit == Raw("null")

\* The elements of an array of strings as JSON.stringify writes them.
RECURSIVE ArrayItems(_)
ArrayItems(items) ==
    IF items = <<>> THEN <<>>
    ELSE StrLit(<<Head(items)>>)
             \o (IF Len(items) = 1 THEN <<>> ELSE <<Comma>> \o ArrayItems(Tail(items)))

\* JSON.stringify of a value that is a member of an object.
ValLit(v) ==
    CASE v.t = "number" -> <<[k |-> "num", s |-> v.s[1]]>>
      [] v.t = "array"  -> <<OpenArray>> \o ArrayItems(v.s) \o <<CloseArray>>
      [] v.t = "object" ->
            <<OpenObject>> \o [i \in 1..Len(v.s) |-> Raw(v.s[i])] \o <<Raw("}")>>
      [] v.t = "null"   -> <<NullLit>>
      [] OTHER          -> StrLit(v.s)

HeadStart == Raw("{\"type\":\"start\",\"data\":{\"diffId\":")

HeadProgress == Raw("{\"type\":\"progress\",\"data\":")

HeadMessage == Raw("{\"type\":\"message\",\"data\":")

HeadNotes == Raw("{\"type\":\"notes\",\"data\":{")

KeyDeveloper == Raw("\"developer\":")

KeyMarketing == Raw("\"marketing\":")

HeadError == Raw("{\"type\":\"error\",\"error\":")

WholeComplete == Raw("{\"type\":\"complete\"}")

Close1 == Raw("}")

Close2 == Raw("}}")

\* The members of the data of a notes event as JSON.stringify writes them:
\* a member whose value is undefined is left out.
NotesMembers(ev) ==
    LET dev == IF ev.developer.t = "undefined" THEN <<>>
               ELSE <<KeyDeveloper>> \o ValLit(ev.developer)
        mkt == IF ev.marketing.t = "undefined" THEN <<>>
               ELSE <<KeyMarketing>> \o ValLit(ev.marketing)
    IN  dev \o (IF dev # <<>> /\ mkt # <<>> THEN <<Comma>> ELSE <<>>) \o mkt

\* JSON.stringify(event), for the events of types/diff-analyzer.ts:18-22 as
\* the program builds them.
Stringify(ev) ==
    CASE ev.type = "start"    -> <<HeadStart>> \o StrLit(<<ev.diffId>>) \o <<Close2>>
      [] ev.type = "progress" -> <<HeadProgress>> \o StrLit(ev.text) \o <<Close1>>
      [] ev.type = "message"  -> <<HeadMessage>> \o StrLit(ev.text) \o <<Close1>>
      [] ev.type = "notes"    -> <<HeadNotes>> \o NotesMembers(ev) \o <<Close2>>
      [] ev.type = "error"    -> <<HeadError>> \o StrLit(ev.error) \o <<Close1>>
      [] OTHER                -> <<WholeComplete>>

DataPrefix == Raw("data: ")

\* JSON.stringify(event) throws: a value of the event refers to itself.
StringifyThrows(ev) ==
    ev.type = "notes" /\ (ev.developer = Cyclic \/ ev.marketing = Cyclic)

\* 'Failed to serialize event data'
SerializeFailedEvent ==
    [type |-> "error", diffId |-> "", text |-> <<>>,
     developer |-> [t |-> "undefined", s |-> <<>>],
     marketing |-> [t |-> "undefined", s |-> <<>>],
     error |-> <<"Failed to serialize event data">>]

\* part_001:34-44.  The template strings of route.ts:86, 107, 161, ...
\* write the same frame for the events of the route, none of which
\* JSON.stringify refuses.
createSSEData(ev) ==
    <<DataPrefix>>
        \o Stringify(IF StringifyThrows(ev) THEN SerializeFailedEvent ELSE ev)
        \o <<NL, NL>>

---------------------------------------------------------------------------
(* stream-handler.ts: StreamManager as a record M and its methods as       *)
(* operators.  M.frames: what the controller took; M.calls: the calls the  *)
(* methods made on the controller; M.sends: for every sendEvent, whether   *)
(* the manager was closed when it was called and what it returned;         *)
(* M.closes: the number of calls of safeClose.                             *)

\* 'Unknown error during streaming'
MsgUnknownStreaming ==
    <<"U","n","k","n","o","w","n"," ","e","r","r","o","r"," ","d","u","r","i","n","g"," ","s","t","r","e","a","m","i","n","g">>

NoManager ==
    [pc |-> "none", isClosed |-> FALSE, aborted |-> FALSE, ctrl |-> "none",
     frames |-> <<>>, calls |-> <<>>, sends |-> <<>>, closes |-> 0,
     cancelled |-> FALSE, n |-> 0]

\* stream-handler.ts:94-97: new StreamManager(), new ReadableStream, start()
\* calls streamFn.
NewManager == [NoManager EXCEPT !.pc = "running", !.ctrl = "readable"]

\* ManagerSafeEnqueue without the if (this.isClosed) return false of
\* stream-handler.ts:24-26.
ManagerSafeEnqueue_NoGuard(M, data) ==
    LET T == [M EXCEPT !.calls = Append(@, "enqueue")]
    IN  IF M.ctrl = "readable"
        THEN [M |-> [T EXCEPT !.frames = Append(@, data)], ret |-> TRUE]
        ELSE [M |-> [T EXCEPT !.isClosed = TRUE], ret |-> FALSE]

\* stream-handler.ts:23-38  StreamManager.safeEnqueue.  controller.enqueue
\* throws unless the stream is readable.
ManagerSafeEnqueue(M, data) ==
    IF M.isClosed THEN [M |-> M, ret |-> FALSE]
    ELSE LET T == [M EXCEPT !.calls = Append(@, "enqueue")]
         IN  IF M.ctrl = "readable"
             THEN [M |-> [T EXCEPT !.frames = Append(@, data)], ret |-> TRUE]
             ELSE [M |-> [T EXCEPT !.isClosed = TRUE], ret |-> FALSE]

\* stream-handler.ts:43-52  StreamManager.safeClose.
ManagerSafeClose(M) ==
    IF ~M.isClosed
    THEN LET T == [M EXCEPT !.calls = Append(@, "close")]
         IN  IF M.ctrl = "readable"
             THEN [T EXCEPT !.ctrl = "closed", !.isClosed = TRUE]
             ELSE [T EXCEPT !.isClosed = TRUE]
    ELSE M

\* stream-handler.ts:57-60  StreamManager.sendEvent.
sendEvent(M, ev) ==
    LET r == ManagerSafeEnqueue(M, createSSEData(ev))
    IN  [M |-> [r.M EXCEPT !.sends = Append(@, [closed |-> M.isClosed, ret |-> r.ret])],
         ret |-> r.ret]

\* stream-handler.ts:65-71  StreamManager.cancel.
ManagerCancel(M) == [M EXCEPT !.isClosed = TRUE, !.aborted = TRUE]

\* stream-handler.ts:83-85  get closed().
closed(M) == M.isClosed

\* stream-handler.ts:100-109: the catch of createSSEStream.
streamFnCatch(M, e) ==
    IF ~isAbortError(e)
    THEN ManagerSafeClose(sendEvent(M,
             [Event("error") EXCEPT !.error =
                 IF e.isError THEN e.message ELSE MsgUnknownStreaming]).M)
    ELSE ManagerSafeClose(M)

---------------------------------------------------------------------------
(* useDiffAnalysis.ts: the read loop of analyzeDiff and parseSSEData, on   *)
(* text as sequences of wire tokens.                                       *)

\* The characters that `.` does not match and before which `$` matches
\* under the flag m: the line terminators.
IsLineTerminator(tok) == tok.k = "raw" /\ tok.s \in LineTerminators

\* A token that is one white space character: JSON.stringify leaves the
\* space separators and U+FEFF as they are and escapes the control
\* characters.
IsWhitespaceToken(tok) ==
    \/ tok.k = "raw" /\ tok.s \in Whitespace
    \/ tok.k = "esc" /\ tok.s \in SpaceSeparators \cup {Bom}

\* text.trim() is the empty string.
TrimsToEmpty(text) ==
    \A i \in 1..Len(text) : IsWhitespaceToken(text[i])

\* useDiffAnalysis.ts:174  buffer.split('\n\n')
RECURSIVE SplitBlankLine(_, _)
SplitBlankLine(text, acc) ==
    IF text = <<>> THEN <<acc>>
    ELSE IF Len(text) >= 2 /\ text[1] = NL /\ text[2] = NL
         THEN <<acc>> \o SplitBlankLine(SubSeq(text, 3, Len(text)), <<>>)
         ELSE SplitBlankLine(Tail(text), Append(acc, Head(text)))

NoValue == [ok |-> FALSE, v |-> Undefined, next |-> 0]

\* A token that is JSON white space where it stands between two tokens:
\* space, tab, LF or CR (the escaped form of a space is the space).
IsJsonWhitespace(tok) ==
    \/ tok.k = "raw" /\ tok.s \in JsonWhitespace
    \/ tok.k = "esc" /\ tok.s = " "

\* The tokens JSON.parse reads: the white space that stands outside the
\* string literals is skipped, and "}}" is two closing braces.
RECURSIVE Compact(_, _)
Compact(toks, inString) ==
    IF toks = <<>> THEN <<>>
    ELSE IF Head(toks) = Quote THEN <<Quote>> \o Compact(Tail(toks), ~inString)
    ELSE IF inString THEN <<Head(toks)>> \o Compact(Tail(toks), inString)
    ELSE IF IsJsonWhitespace(Head(toks)) THEN Compact(Tail(toks), inString)
    ELSE IF Head(toks) = Close2 THEN <<Close1, Close1>> \o Compact(Tail(toks), inString)
    ELSE <<Head(toks)>> \o Compact(Tail(toks), inString)

\* The characters below U+0020 that the texts of the model hold: JSON.parse
\* throws on one of them inside a string literal.
ControlCharacters == {"\t", "\n", "\r", "\f", VTab}

\* JSON.parse reading a string literal that starts at toks[i]: a quote, then
\* tokens up to the next quote, none of them a raw control character.
ReadString(toks, i) ==
    IF i > Len(toks) \/ toks[i] # Quote THEN NoValue
    ELSE LET ends == {j \in (i + 1)..Len(toks) : toks[j] = Quote}
         IN  IF ends = {} THEN NoValue
             ELSE LET j == CHOOSE e \in ends : \A f \in ends : e <= f
                  IN  IF \E m \in (i + 1)..(j - 1) :
                             toks[m].k = "raw" /\ toks[m].s \in ControlCharacters
                      THEN NoValue
                      ELSE [ok |-> TRUE,
                            v |-> JStr([m \in 1..(j - i - 1) |-> toks[i + m].s]),
                            next |-> j + 1]

\* JSON.parse reading the elements of an array of strings from toks[i] on,
\* acc being the elements read so far.
RECURSIVE ReadItems(_, _, _)
ReadItems(toks, i, acc) ==
    LET str == ReadString(toks, i)
    IN  IF ~str.ok \/ Len(str.v.s) # 1 \/ str.next > Len(toks) THEN NoValue
        ELSE IF toks[str.next] = CloseArray
        THEN [ok |-> TRUE, v |-> [t |-> "array", s |-> Append(acc, str.v.s[1])],
              next |-> str.next + 1]
        ELSE IF toks[str.next] = Comma
        THEN ReadItems(toks, str.next + 1, Append(acc, str.v.s[1]))
        ELSE NoValue

\* Index of the token "}" that closes the object opened before toks[i],
\* depth objects being open there; 0 when there is none.
RECURSIVE ClosingToken(_, _, _)
ClosingToken(toks, i, depth) ==
    IF i > Len(toks) THEN 0
    ELSE IF toks[i] = OpenObject THEN ClosingToken(toks, i + 1, depth + 1)
    ELSE IF toks[i] = Raw("}")
         THEN IF depth = 1 THEN i ELSE ClosingToken(toks, i + 1, depth - 1)
    ELSE ClosingToken(toks, i + 1, depth)

\* The n tokens from toks[i] on are closing braces.
Closers(toks, i, n) ==
    i + n - 1 <= Len(toks) /\ \A m \in i..(i + n - 1) : toks[m] = Close1

\* The text of the tokens toks[a..b].
TextOf(toks, a, b) == [m \in 1..(b - a + 1) |-> toks[a + m - 1].s]

\* What JSON.parse returns for a frame, as the read loop and
\* handleStreamEvent look at it: type is event.type ("" where the value has
\* no such member or is no object), diffId is event.data.diffId of a start
\* event, data is event.data of a progress or message event and the value
\* itself where it is not an event, developer and marketing are the
\* members of event.data of a notes event, error is event.error.
Parsed(type) ==
    [type |-> type, diffId |-> Undefined, data |-> Undefined,
     developer |-> Undefined, marketing |-> Undefined, error |-> Undefined]

NoEvent == [ok |-> FALSE, ev |-> Parsed("none"), next |-> 0]

\* The tokens with which the text of an event object begins.
Heads == {HeadStart, HeadProgress, HeadMessage, HeadNotes, HeadError, WholeComplete}

\* The value of the object whose members were read as parsed.
ObjectValue(parsed, next) ==
    IF parsed.ok
    THEN [ok |-> TRUE, v |-> [t |-> "object", s |-> Canon(parsed.members, 1)], next |-> next]
    ELSE NoValue

\* JSON.parse reading the object opened at toks[i] and closed at toks[c]:
\* its members are pieces of the texts of MemberTable and KeyTable.
ReadObject(toks, i, c) ==
    IF c = 0 \/ \E m \in (i + 1)..(c - 1) : toks[m].k # "raw" THEN NoValue
    ELSE ObjectValue(JSONParse(<<LB>> \o TextOf(toks, i + 1, c - 1) \o <<RB>>), c + 1)

\* An event object that stands where a value is read: an object, held as
\* the text of its tokens.
EventAsValue(toks, i, r) ==
    IF r.ok
    THEN [ok |-> TRUE, v |-> [t |-> "object", s |-> TextOf(toks, i, r.next - 1)],
          next |-> r.next]
    ELSE NoValue

\* The event ev, when the value val was read and n closing braces follow it.
Closed(toks, val, n, ev) ==
    IF val.ok /\ Closers(toks, val.next, n)
    THEN [ok |-> TRUE, ev |-> ev, next |-> val.next + n]
    ELSE NoEvent

RECURSIVE ReadValue(_, _)
RECURSIVE ReadEvent(_, _)
RECURSIVE ReadMembers(_, _, _, _)

\* What follows the value val of the member key of the data of a notes
\* event, dev and mkt being the values of developer and marketing read
\* before: a comma and the next member, or the end of the data and of the
\* event.  A key that comes again replaces its value.
AfterMember(toks, key, val, dev, mkt) ==
    IF ~val.ok \/ val.next > Len(toks) THEN NoEvent
    ELSE IF toks[val.next] = Comma
    THEN ReadMembers(toks, val.next + 1,
                     IF key = "developer" THEN val.v ELSE dev,
                     IF key = "marketing" THEN val.v ELSE mkt)
    ELSE Closed(toks, val, 2,
                [Parsed("notes") EXCEPT
                    !.developer = IF key = "developer" THEN val.v ELSE dev,
                    !.marketing = IF key = "marketing" THEN val.v ELSE mkt])

\* JSON.parse reading the members of the data of a notes event from toks[i]
\* on, in any order: a key and its value, or a member piece.
ReadMembers(toks, i, dev, mkt) ==
    IF i > Len(toks) THEN NoEvent
    ELSE IF toks[i] = KeyDeveloper
    THEN AfterMember(toks, "developer", ReadValue(toks, i + 1), dev, mkt)
    ELSE IF toks[i] = KeyMarketing
    THEN AfterMember(toks, "marketing", ReadValue(toks, i + 1), dev, mkt)
    ELSE IF toks[i].k = "raw" /\ toks[i].s \in DOMAIN MemberTable
    THEN AfterMember(toks, MemberTable[toks[i].s].key,
                     [ok |-> TRUE, v |-> MemberTable[toks[i].s].val, next |-> i + 1],
                     dev, mkt)
    ELSE IF toks[i].k = "raw" /\ toks[i].s \in DOMAIN KeyTable
    THEN AfterMember(toks, KeyTable[toks[i].s], ReadValue(toks, i + 1), dev, mkt)
    ELSE NoEvent

\* JSON.parse reading a value at toks[i]: a number, null, an array of
\* strings, an object, or a string.
ReadValue(toks, i) ==
    IF i > Len(toks) THEN NoValue
    ELSE CASE toks[i].k = "num" ->
                [ok |-> TRUE, v |-> [t |-> "number", s |-> <<toks[i].s>>], next |-> i + 1]
           [] toks[i] = NullLit ->
                [ok |-> TRUE, v |-> JNull, next |-> i + 1]
           [] toks[i] = OpenArray ->
                IF i + 1 <= Len(toks) /\ toks[i + 1] = CloseArray
                THEN [ok |-> TRUE, v |-> [t |-> "array", s |-> <<>>], next |-> i + 2]
                ELSE ReadItems(toks, i + 1, <<>>)
           [] toks[i] = OpenObject ->
                ReadObject(toks, i, ClosingToken(toks, i + 1, 1))
           [] toks[i] \in Heads ->
                EventAsValue(toks, i, ReadEvent(toks, i))
           [] OTHER -> ReadString(toks, i)

\* JSON.parse reading the event object that begins at toks[i].
ReadEvent(toks, i) ==
    IF i > Len(toks) THEN NoEvent
    ELSE CASE toks[i] = WholeComplete ->
                [ok |-> TRUE, ev |-> Parsed("complete"), next |-> i + 1]
           [] toks[i] = HeadProgress ->
                Closed(toks, ReadValue(toks, i + 1), 1,
                       [Parsed("progress") EXCEPT !.data = ReadValue(toks, i + 1).v])
           [] toks[i] = HeadMessage ->
                Closed(toks, ReadValue(toks, i + 1), 1,
                       [Parsed("message") EXCEPT !.data = ReadValue(toks, i + 1).v])
           [] toks[i] = HeadError ->
                Closed(toks, ReadValue(toks, i + 1), 1,
                       [Parsed("error") EXCEPT !.error = ReadValue(toks, i + 1).v])
           [] toks[i] = HeadStart ->
                Closed(toks, ReadValue(toks, i + 1), 2,
                       [Parsed("start") EXCEPT !.diffId = ReadValue(toks, i + 1).v])
           [] toks[i] = HeadNotes ->
                IF Closers(toks, i + 1, 2)
                THEN [ok |-> TRUE, ev |-> Parsed("notes"), next |-> i + 3]
                ELSE ReadMembers(toks, i + 1, Undefined, Undefined)
           [] OTHER -> NoEvent

\* The value read from the first token on, when it takes the whole text.
WholeText(toks, r) == IF r.ok /\ r.next = Len(toks) + 1 THEN r ELSE NoEvent

\* A value that is not an event object, as the read loop sees it.
PlainValue(r) == [ok |-> r.ok, ev |-> [Parsed("") EXCEPT !.data = r.v], next |-> r.next]

\* JSON.parse of the compact text.
ParseCompact(toks) ==
    IF toks = <<>> THEN NoEvent
    ELSE IF toks[1] \in Heads THEN WholeText(toks, ReadEvent(toks, 1))
    ELSE WholeText(toks, PlainValue(ReadValue(toks, 1)))

\* JSON.parse(text) as StreamEvent: ok is FALSE where JSON.parse throws.
JSONParseEvent(toks) == ParseCompact(Compact(toks, FALSE))

\* useDiffAnalysis.ts:106-118  parseSSEData: eventText.match(/^data: (.+)$/m),
\* then JSON.parse of the group; ok is FALSE where it returns null.
parseSSEData(eventText) ==
    LET starts == {i \in 1..(Len(eventText) - 1) :
                      /\ i = 1 \/ IsLineTerminator(eventText[i - 1])
                      /\ eventText[i] = DataPrefix
                      /\ ~IsLineTerminator(eventText[i + 1])}
    IN  IF starts = {} THEN NoEvent
        ELSE LET i     == CHOOSE a \in starts : \A b \in starts : a <= b
                 stops == {j \in (i + 1)..Len(eventText) : IsLineTerminator(eventText[j])}
                 last  == IF stops = {} THEN Len(eventText)
                          ELSE (CHOOSE a \in stops : \A b \in stops : a <= b) - 1
             IN  JSONParseEvent(SubSeq(eventText, i + 1, last))

\* if (event): every object is true, another value as ToBoolean has it.
IsTruthy(ev) == ev.type # "" \/ Truthy(ev.data)

\* useDiffAnalysis.ts:177-186: the events of the complete frames, in order,
\* those skipped, not parsed or parsed to a value that is false left out.
RECURSIVE DispatchAll(_)
DispatchAll(frames) ==
    IF frames = <<>> THEN <<>>
    ELSE LET eventText == Head(frames)
             event     == parseSSEData(eventText)
         IN  IF TrimsToEmpty(eventText) \/ ~event.ok \/ ~IsTruthy(event.ev)
             THEN DispatchAll(Tail(frames))
             ELSE <<event.ev>> \o DispatchAll(Tail(frames))

\* useDiffAnalysis.ts:170-187: one turn of the loop on the bytes of one
\* read.  decoder.decode(value, { stream: true }) hands over the
\* characters of the read.
readLoopBody(H, value) ==
    LET buffer == H.buffer \o value
        parts  == SplitBlankLine(buffer, <<>>)
    IN  [H EXCEPT !.buffer = parts[Len(parts)],
                  !.dispatched = @ \o DispatchAll(SubSeq(parts, 1, Len(parts) - 1))]

NoHook == [pc |-> "none", sent |-> <<>>, wire |-> <<>>, buffer |-> <<>>, dispatched |-> <<>>]


---------------------------------------------------------------------------
(* The state machine.                                                      *)

\* No second invocation, and no library function under way.
NoPair == [pc |-> "none"]

NoLib == [pc |-> "none"]

Session ==
    [isClosed |-> isClosed, ctrl |-> ctrl, events |-> events,
     responseQueue |-> responseQueue, currentJson |-> currentJson,
     notesFound |-> notesFound, hist |-> hist]

Store(S) ==
    /\ isClosed' = S.isClosed
    /\ ctrl' = S.ctrl
    /\ events' = S.events
    /\ responseQueue' = S.responseQueue
    /\ currentJson' = S.currentJson
    /\ notesFound' = S.notesFound
    /\ hist' = S.hist

Init ==
    /\ pc = "idle"
    /\ req \in Requests
    /\ status = 0
    /\ isClosed = FALSE
    /\ aborted = FALSE
    /\ ctrl = "none"
    /\ events = <<>>
    /\ responseQueue = <<>>
    /\ currentJson = <<>>
    /\ notesFound = FALSE
    /\ backend = [n |-> 0, plain |-> TRUE, text |-> TRUE]
    /\ hist = [cancelled |-> FALSE, ops |-> <<>>, raised |-> <<>>,
               enqueueRejected |-> FALSE, attempts |-> <<>>, contents |-> <<>>,
               loopExit |-> "none"]
    /\ mgr = NoManager
    /\ hook = NoHook
    /\ pair = NoPair
    /\ lib = NoLib

\* route.ts:26-31: the request has no diffContent.
PostMissingDiff ==
    /\ pc = "idle"
    /\ ~req.hasDiff
    /\ pc' = "responded"
    /\ status' = 400
    /\ UNCHANGED <<req, isClosed, aborted, ctrl, events, responseQueue,
                   currentJson, notesFound, backend, hist, mgr, hook,
                   pair, lib>>

\* route.ts:338-354: an exception before the stream is returned (req.json()
\* or new OpenAI() throws).
PostThrows(e) ==
    /\ pc = "idle"
    /\ pc' = "responded"
    /\ status' = IF e.isError /\ (Includes(e.message, SubAborted)
                                  \/ Includes(e.message, SubECONNRESET))
                 THEN 499 ELSE 500
    /\ hist' = [hist EXCEPT !.raised = Append(@, [stage |-> "post", err |-> e])]
    /\ UNCHANGED <<req, isClosed, aborted, ctrl, events, responseQueue,
                   currentJson, notesFound, backend, mgr, hook,
                   pair, lib>>

\* startSession with the filter evaluated before the start event is sent.
startSession_FilterFirst(S, request) ==
    LET filtered == Did(S, "filter")
        sent     == safeEnqueue(filtered, StartEvent(request.diffId))
    IN  IF sent.isClosed THEN [S |-> sent, next |-> "returned"]
        ELSE IF ~shouldIncludePR(request.description)
        THEN [S |-> safeClose(safeEnqueue(sent, MessageEvent)), next |-> "returned"]
        ELSE [S |-> Did(sent, "create"), next |-> "setup"]

\* startSession without the safeClose and return of route.ts:112-113.
startSession_NoReturn(S, request) ==
    LET sent     == safeEnqueue(S, StartEvent(request.diffId))
        filtered == Did(sent, "filter")
    IN  IF sent.isClosed THEN [S |-> sent, next |-> "returned"]
        ELSE IF ~shouldIncludePR(request.description)
        THEN [S |-> Did(safeEnqueue(filtered, MessageEvent), "create"), next |-> "setup"]
        ELSE [S |-> Did(filtered, "create"), next |-> "setup"]

\* route.ts:83-116 up to the call of the backend: what ReadableStream.start
\* does before its first await.  sent: after the start event; S.isClosed
\* there means return (route.ts:92).
startSession(S, request) ==
    LET sent     == safeEnqueue(S, StartEvent(request.diffId))
        filtered == Did(sent, "filter")
    IN  IF sent.isClosed THEN [S |-> sent, next |-> "returned"]
        ELSE IF ~shouldIncludePR(request.description)
        THEN [S |-> safeClose(safeEnqueue(filtered, MessageEvent)), next |-> "returned"]
        ELSE [S |-> Did(filtered, "create"), next |-> "setup"]

\* PostAccept without the validation of route.ts:33-38.
PostAccept_NoValidation ==
    /\ pc = "idle"
    /\ LET r == startSession([Session EXCEPT !.ctrl = "readable"], req)
       IN  /\ Store(r.S)
           /\ pc' = r.next
    /\ status' = 200
    /\ UNCHANGED <<req, aborted, backend, mgr, hook,
                   pair, lib>>

\* route.ts:33-131 and 329-336: the request is accepted, the stream is
\* constructed, start() runs to its first await and the response is returned.
PostAccept ==
    /\ pc = "idle"
    /\ req.hasDiff
    /\ LET r == startSession([Session EXCEPT !.ctrl = "readable"], req)
       IN  /\ Store(r.S)
           /\ pc' = r.next
    /\ status' = 200
    /\ UNCHANGED <<req, aborted, backend, mgr, hook,
                   pair, lib>>

\* route.ts:124-131: the backend call returns its stream.
SetupResolves ==
    /\ pc = "setup"
    /\ pc' = "streaming"
    /\ UNCHANGED <<req, status, isClosed, aborted, ctrl, events, responseQueue,
                   currentJson, notesFound, backend, hist, mgr, hook,
                   pair, lib>>

\* route.ts:132-139 and 292-315: the backend call throws.
SetupThrows(e) ==
    /\ pc = "setup"
    /\ Store(setupCatch([Session EXCEPT !.hist.raised =
                            Append(@, [stage |-> "setup", err |-> e])], e))
    /\ pc' = "returned"
    /\ UNCHANGED <<req, status, aborted, backend, mgr, hook,
                   pair, lib>>

\* start() is inside the loop of route.ts:143, waiting for the next chunk.
InLoop == pc = "streaming" /\ hist.loopExit = "none"

\* start() has left the loop body by break and waits for the return() of
\* the backend's iterator, which for await calls before the statement after
\* the loop runs.
LeavingLoop == pc = "streaming" /\ hist.loopExit = "break"

\* route.ts:143-207: the backend delivers one chunk.  After a break start()
\* is back in the event loop until the iterator has returned.
StreamChunk(c) ==
    /\ InLoop
    /\ MayDeliver(c)
    /\ LET r == loopBody(Session, aborted, c)
       IN  Store(IF r.brk THEN [r.S EXCEPT !.hist.loopExit = "break"] ELSE r.S)
    /\ pc' = "streaming"
    /\ backend' = [n |-> backend.n + 1,
                   plain |-> backend.plain /\ c \in PlainChunks,
                   text |-> backend.text /\ c \in TextChunks]
    /\ UNCHANGED <<req, status, aborted, mgr, hook,
                   pair, lib>>

\* route.ts:225-291 after a break: the iterator has returned and what
\* follows the loop runs.
StreamBreaks ==
    /\ LeavingLoop
    /\ Store(finalize(Session))
    /\ pc' = "returned"
    /\ UNCHANGED <<req, status, aborted, backend, mgr, hook,
                   pair, lib>>

\* route.ts:225-291: the backend stream ends.
StreamEnds ==
    /\ InLoop
    /\ Store(finalize([Session EXCEPT !.hist.loopExit = "done"]))
    /\ pc' = "returned"
    /\ UNCHANGED <<req, status, aborted, backend, mgr, hook,
                   pair, lib>>

\* route.ts:208-223 and 292-315: reading the backend stream throws.
StreamThrows(e) ==
    /\ InLoop
    /\ Store(streamCatch([Session EXCEPT !.hist.raised =
                             Append(@, [stage |-> "stream", err |-> e]),
                          !.hist.loopExit = "throw"], e))
    /\ pc' = "returned"
    /\ UNCHANGED <<req, status, aborted, backend, mgr, hook,
                   pair, lib>>

\* What cancelling sets, route.ts:318-325: isClosed = true and
\* abortController.abort().
cancel(S) == [S EXCEPT !.isClosed = TRUE, !.hist.cancelled = TRUE]

\* The client disconnects: the stream is cancelled and calls cancel().  It
\* does so between two steps of start(), or after start() has returned while
\* the stream still holds events.
Cancel ==
    /\ pc \in {"setup", "streaming", "returned"}
    /\ ~hist.cancelled
    /\ Store([cancel(Session) EXCEPT
                 !.ctrl = IF @ = "readable" THEN "cancelled" ELSE @])
    /\ aborted' = TRUE
    /\ UNCHANGED <<pc, req, status, backend, mgr, hook,
                   pair, lib>>

Next ==
    \/ PostMissingDiff
    \/ \E e \in Errors : PostThrows(e)
    \/ PostAccept
    \/ SetupResolves
    \/ \E e \in Errors : SetupThrows(e)
    \/ \E c \in Chunks : StreamChunk(c)
    \/ StreamBreaks
    \/ StreamEnds
    \/ \E e \in Errors : StreamThrows(e)
    \/ Cancel

Spec == Init /\ [][Next]_vars

\* The steps the backend's answers drive while start() waits for them: the
\* call returns or throws, the stream delivers a chunk, ends or throws.
BackendStep ==
    \/ SetupResolves
    \/ \E e \in Errors : StreamThrows(e)
    \/ \E e \in Errors : SetupThrows(e)
    \/ StreamEnds
    \/ \E c \in Chunks : StreamChunk(c)

\* The step the return() of the iterator drives, told by where it takes
\* start(): from the wait after a break to its end (StreamBreaks is the one
\* action of Next that does so).
IteratorReturns == LeavingLoop /\ pc' = "returned"

\* The sessions in which the backend call settles, its stream ends or
\* throws, and the return() of its iterator settles (the promise of
\* route.ts:124 and those of the iterator of route.ts:143 do not stay
\* pending forever).
SpecLive == Spec /\ WF_vars(BackendStep) /\ WF_pc(IteratorReturns)

---------------------------------------------------------------------------
(* A stream made by createSSEStream (stream-handler.ts:91-116): streamFn   *)
(* runs with the manager and the controller in hand and uses them as it    *)
(* likes until it returns or throws; the client may cancel at any time.    *)

\* Most calls streamFn makes on the manager and the controller.
MaxManagerOps == 4

\* The request served in the runs of the manager and of the client.
AnyRequest == [diffId |-> "pr-1", hasDiff |-> TRUE, description |-> TitleFixParser]

ManagerEvents ==
    {ProgressEvent(TextChunk), NotesEvent(JStr(<<"fix bug">>), JStr(<<"better app">>)),
     NotesEvent(Cyclic, JStr(<<"better app">>)), CompleteEvent}

InitManager ==
    /\ pc = "manager"
    /\ req = AnyRequest
    /\ status = 0
    /\ isClosed = FALSE
    /\ aborted = FALSE
    /\ ctrl = "none"
    /\ events = <<>>
    /\ responseQueue = <<>>
    /\ currentJson = <<>>
    /\ notesFound = FALSE
    /\ backend = [n |-> 0, plain |-> TRUE, text |-> TRUE]
    /\ hist = [cancelled |-> FALSE, ops |-> <<>>, raised |-> <<>>,
               enqueueRejected |-> FALSE, attempts |-> <<>>, contents |-> <<>>,
               loopExit |-> "none"]
    /\ mgr = NewManager
    /\ hook = NoHook
    /\ pair = NoPair
    /\ lib = NoLib

RouteUnchanged ==
    UNCHANGED <<pc, req, status, isClosed, aborted, ctrl, events, responseQueue,
                currentJson, notesFound, backend, hist, hook, pair, lib>>

StreamFnRunning == pc = "manager" /\ mgr.pc = "running" /\ mgr.n < MaxManagerOps

\* streamFn calls manager.sendEvent(controller, ev).
ManagerSends(ev) ==
    /\ StreamFnRunning
    /\ mgr' = [sendEvent(mgr, ev).M EXCEPT !.n = @ + 1]
    /\ RouteUnchanged

\* streamFn calls manager.safeClose(controller).
ManagerCloses ==
    /\ StreamFnRunning
    /\ mgr' = [ManagerSafeClose(mgr) EXCEPT !.n = @ + 1, !.closes = @ + 1]
    /\ RouteUnchanged

\* streamFn calls controller.close() itself.
ControllerCloses ==
    /\ StreamFnRunning
    /\ mgr.ctrl = "readable"
    /\ mgr' = [mgr EXCEPT !.ctrl = "closed", !.n = @ + 1]
    /\ RouteUnchanged

\* stream-handler.ts:99: streamFn returns.
StreamFnReturns ==
    /\ pc = "manager" /\ mgr.pc = "running"
    /\ mgr' = [mgr EXCEPT !.pc = "settled"]
    /\ RouteUnchanged

\* stream-handler.ts:100-109: streamFn throws.
StreamFnThrows(e) ==
    /\ pc = "manager" /\ mgr.pc = "running"
    /\ mgr' = [streamFnCatch(mgr, e) EXCEPT !.pc = "settled", !.closes = @ + 1]
    /\ RouteUnchanged

\* stream-handler.ts:112-114: the client disconnects and the stream calls
\* cancel().
ManagerCancelled ==
    /\ pc = "manager" /\ mgr.pc \in {"running", "settled"}
    /\ ~mgr.cancelled
    /\ mgr' = [ManagerCancel(mgr) EXCEPT
                  !.cancelled = TRUE,
                  !.ctrl = IF @ = "readable" THEN "cancelled" ELSE @]
    /\ RouteUnchanged

NextManager ==
    \/ \E ev \in ManagerEvents : ManagerSends(ev)
    \/ ManagerCloses
    \/ ControllerCloses
    \/ StreamFnReturns
    \/ \E e \in Errors : StreamFnThrows(e)
    \/ ManagerCancelled

SpecManager == InitManager /\ [][NextManager]_vars

\* Both kinds of stream the server has: the one of POST and the one of
\* createSSEStream.
InitChannels == Init \/ InitManager

NextChannels == Next \/ NextManager

SpecChannels == InitChannels /\ [][NextChannels]_vars

---------------------------------------------------------------------------
(* The client: the response body arrives in reads that cut the server's    *)
(* frames anywhere (useDiffAnalysis.ts:163-187).                           *)

\* Most events of a response.
MaxWireEvents == 3

\* Events the server sends after start.
WireEvents ==
    {ProgressEvent(<<"ok">>),
     ProgressEvent(<<"line 1", "\n", "line 2">>),
     ProgressEvent(<<"a", LineSep, "b">>),
     ProgressEvent(<<"a", ParaSep, "b">>),
     NotesEvent(JStr(<<"fix bug">>), JStr(<<"better app">>)),
     NotesEvent([t |-> "number", s |-> <<"5">>], PlaceholderMarketing),
     NotesEvent([t |-> "array", s |-> <<"a", "b">>], PlaceholderMarketing),
     MessageEvent,
     CompleteEvent,
     [Event("error") EXCEPT !.error = <<"rate limit">>]}

\* The responses: start, then events of WireEvents.
WireStreams ==
    {<<StartEvent("pr-1")>> \o t :
        t \in UNION {[1..n -> WireEvents] : n \in 0..(MaxWireEvents - 1)}}

\* What the server writes for a response: the frames of its events.
RECURSIVE Frames(_)
Frames(evs) == IF evs = <<>> THEN <<>> ELSE createSSEData(Head(evs)) \o Frames(Tail(evs))

InitClient ==
    /\ pc = "client"
    /\ req = AnyRequest
    /\ status = 0
    /\ isClosed = FALSE
    /\ aborted = FALSE
    /\ ctrl = "none"
    /\ events = <<>>
    /\ responseQueue = <<>>
    /\ currentJson = <<>>
    /\ notesFound = FALSE
    /\ backend = [n |-> 0, plain |-> TRUE, text |-> TRUE]
    /\ hist = [cancelled |-> FALSE, ops |-> <<>>, raised |-> <<>>,
               enqueueRejected |-> FALSE, attempts |-> <<>>, contents |-> <<>>,
               loopExit |-> "none"]
    /\ mgr = NoManager
    /\ \E evs \in WireStreams :
          hook = [NoHook EXCEPT !.pc = "reading", !.sent = evs, !.wire = Frames(evs)]
    /\ pair = NoPair
    /\ lib = NoLib

ServerUnchanged ==
    UNCHANGED <<pc, req, status, isClosed, aborted, ctrl, events, responseQueue,
                currentJson, notesFound, backend, hist, mgr, pair, lib>>

\* useDiffAnalysis.ts:167-187: reader.read() returns the next k characters.
HookRead(k) ==
    /\ pc = "client" /\ hook.pc = "reading"
    /\ k <= Len(hook.wire)
    /\ hook' = [readLoopBody(hook, SubSeq(hook.wire, 1, k))
                   EXCEPT !.wire = SubSeq(hook.wire, k + 1, Len(hook.wire))]
    /\ ServerUnchanged

\* useDiffAnalysis.ts:167-169: reader.read() returns done.
HookDone ==
    /\ pc = "client" /\ hook.pc = "reading"
    /\ hook.wire = <<>>
    /\ hook' = [hook EXCEPT !.pc = "done"]
    /\ ServerUnchanged

NextClient ==
    \/ \E k \in 1..Len(hook.wire) : HookRead(k)
    \/ HookDone

SpecClient == InitClient /\ [][NextClient]_vars

---------------------------------------------------------------------------
(* Two invocations of POST in flight at once.  Each binding of the route   *)
(* lives either in the invocation that declared it or in the module; an    *)
(* invocation reads and writes a binding where it lives.                   *)

MaxPairChunks == 2

Invocations == {1, 2}

\* The route with responseQueue declared once, at module level.
Scope_SharedQueue(field) ==
    IF field = "responseQueue" THEN "module" ELSE "invocation"

\* route.ts:21 and 42-52: responseQueue, currentJson, notesFound, isClosed
\* and abortController are declared with let/const inside POST, and the
\* ReadableStream with its controller is constructed inside POST.
Scope(field) ==
    CASE field = "responseQueue" -> "invocation"
      [] field = "currentJson"   -> "invocation"
      [] field = "notesFound"    -> "invocation"
      [] field = "isClosed"      -> "invocation"
      [] field = "aborted"       -> "invocation"
      [] field = "ctrl"          -> "invocation"
      [] field = "events"        -> "invocation"

\* The bindings as their declarations initialise them.
Fresh ==
    [responseQueue |-> <<>>, currentJson |-> <<>>, notesFound |-> FALSE,
     isClosed |-> FALSE, aborted |-> FALSE, ctrl |-> "none", events |-> <<>>]

FreshHist ==
    [cancelled |-> FALSE, ops |-> <<>>, raised |-> <<>>,
     enqueueRejected |-> FALSE, attempts |-> <<>>, contents |-> <<>>,
     loopExit |-> "none"]

PairTitles == {TitleFixParser, TitleCI}

PairChunks == {TextChunk, ObjectNotes}

PairErrors == {ErrRateLimit, ErrConnReset}

\* The value invocation i finds in a binding.
Bind(P, i, field) ==
    IF Scope(field) = "module" THEN P.module[field] ELSE P.inv[i].own[field]

\* The session record the operators of the route work on, as invocation i
\* sees it.
PairSession(P, i) ==
    [isClosed |-> Bind(P, i, "isClosed"), ctrl |-> Bind(P, i, "ctrl"),
     events |-> Bind(P, i, "events"),
     responseQueue |-> Bind(P, i, "responseQueue"),
     currentJson |-> Bind(P, i, "currentJson"),
     notesFound |-> Bind(P, i, "notesFound"), hist |-> P.inv[i].hist]

\* Invocation i writes its session back, each binding where it lives.
PairStore(P, i, S, isAborted, next, n) ==
    LET Val(field) == IF field = "aborted" THEN isAborted ELSE S[field]
        own    == [field \in DOMAIN Fresh |->
                     IF Scope(field) = "module" THEN P.inv[i].own[field]
                     ELSE Val(field)]
        module == [field \in DOMAIN Fresh |->
                     IF Scope(field) = "module" THEN Val(field)
                     ELSE P.module[field]]
    IN  [P EXCEPT !.inv[i] = [pc |-> next, req |-> P.inv[i].req, n |-> n,
                              own |-> own, hist |-> S.hist],
                  !.module = module,
                  !.last = i]

\* The route, the manager and the client at rest.
AtRest ==
    /\ req = AnyRequest
    /\ status = 0
    /\ isClosed = FALSE
    /\ aborted = FALSE
    /\ ctrl = "none"
    /\ events = <<>>
    /\ responseQueue = <<>>
    /\ currentJson = <<>>
    /\ notesFound = FALSE
    /\ backend = [n |-> 0, plain |-> TRUE, text |-> TRUE]
    /\ hist = FreshHist
    /\ mgr = NoManager
    /\ hook = NoHook

InitPair ==
    /\ pc = "pair"
    /\ AtRest
    /\ lib = NoLib
    /\ \E t1 \in PairTitles, t2 \in PairTitles :
          pair = [pc |-> "pair",
                  inv |-> [i \in Invocations |->
                             [pc |-> "idle",
                              req |-> [diffId |-> IF i = 1 THEN "pr-1" ELSE "pr-2",
                                       hasDiff |-> TRUE,
                                       description |-> IF i = 1 THEN t1 ELSE t2],
                              n |-> 0, own |-> Fresh, hist |-> FreshHist]],
                  module |-> Fresh,
                  last |-> 0]

PairUnchanged ==
    UNCHANGED <<pc, req, status, isClosed, aborted, ctrl, events, responseQueue,
                currentJson, notesFound, backend, hist, mgr, hook, lib>>

\* route.ts:33-131 and 329-336 in invocation i.
PairAccept(i) ==
    /\ pc = "pair" /\ pair.inv[i].pc = "idle"
    /\ LET r == startSession([PairSession(pair, i) EXCEPT !.ctrl = "readable"],
                             pair.inv[i].req)
       IN  pair' = PairStore(pair, i, r.S, Bind(pair, i, "aborted"), r.next, 0)
    /\ PairUnchanged

\* route.ts:124-131 in invocation i.
PairSetupResolves(i) ==
    /\ pc = "pair" /\ pair.inv[i].pc = "setup"
    /\ pair' = PairStore(pair, i, PairSession(pair, i),
                         Bind(pair, i, "aborted"), "streaming", 0)
    /\ PairUnchanged

\* route.ts:132-139 and 292-315 in invocation i.
PairSetupThrows(i, e) ==
    /\ pc = "pair" /\ pair.inv[i].pc = "setup"
    /\ LET S == PairSession(pair, i)
       IN  pair' = PairStore(pair, i,
                       setupCatch([S EXCEPT !.hist.raised =
                                      Append(@, [stage |-> "setup", err |-> e])], e),
                       Bind(pair, i, "aborted"), "returned", 0)
    /\ PairUnchanged

\* route.ts:143-207 and 225-291 in invocation i.
PairChunk(i, c) ==
    /\ pc = "pair" /\ pair.inv[i].pc = "streaming"
    /\ pair.inv[i].hist.loopExit = "none"
    /\ pair.inv[i].n < MaxPairChunks
    /\ LET isAborted == Bind(pair, i, "aborted")
           r == loopBody(PairSession(pair, i), isAborted, c)
       IN  pair' = PairStore(pair, i,
                       IF r.brk THEN [r.S EXCEPT !.hist.loopExit = "break"] ELSE r.S,
                       isAborted, "streaming", pair.inv[i].n + 1)
    /\ PairUnchanged

\* route.ts:225-291 in invocation i after a break, once the iterator has
\* returned.
PairBreaks(i) ==
    /\ pc = "pair" /\ pair.inv[i].pc = "streaming"
    /\ pair.inv[i].hist.loopExit = "break"
    /\ pair' = PairStore(pair, i, finalize(PairSession(pair, i)),
                         Bind(pair, i, "aborted"), "returned", pair.inv[i].n)
    /\ PairUnchanged

\* route.ts:225-291 in invocation i.
PairEnds(i) ==
    /\ pc = "pair" /\ pair.inv[i].pc = "streaming"
    /\ pair.inv[i].hist.loopExit = "none"
    /\ LET S == PairSession(pair, i)
       IN  pair' = PairStore(pair, i,
                       finalize([S EXCEPT !.hist.loopExit = "done"]),
                       Bind(pair, i, "aborted"), "returned", pair.inv[i].n)
    /\ PairUnchanged

\* route.ts:208-223 and 292-315 in invocation i.
PairThrows(i, e) ==
    /\ pc = "pair" /\ pair.inv[i].pc = "streaming"
    /\ pair.inv[i].hist.loopExit = "none"
    /\ LET S == PairSession(pair, i)
       IN  pair' = PairStore(pair, i,
                       streamCatch([S EXCEPT !.hist.raised =
                                       Append(@, [stage |-> "stream", err |-> e]),
                                    !.hist.loopExit = "throw"], e),
                       Bind(pair, i, "aborted"), "returned", pair.inv[i].n)
    /\ PairUnchanged

\* route.ts:318-325: the client of invocation i disconnects.
PairCancel(i) ==
    /\ pc = "pair" /\ pair.inv[i].pc \in {"setup", "streaming", "returned"}
    /\ ~pair.inv[i].hist.cancelled
    /\ LET S == PairSession(pair, i)
       IN  pair' = PairStore(pair, i,
                       [cancel(S) EXCEPT
                           !.ctrl = IF @ = "readable" THEN "cancelled" ELSE @],
                       TRUE, pair.inv[i].pc, pair.inv[i].n)
    /\ PairUnchanged

NextPair ==
    \E i \in Invocations :
        \/ PairAccept(i)
        \/ PairSetupResolves(i)
        \/ \E e \in PairErrors : PairSetupThrows(i, e)
        \/ \E c \in PairChunks : PairChunk(i, c)
        \/ PairBreaks(i)
        \/ PairEnds(i)
        \/ \E e \in PairErrors : PairThrows(i, e)
        \/ PairCancel(i)

SpecPair == InitPair /\ [][NextPair]_vars

---------------------------------------------------------------------------
(* Regular expressions, as far as the filters and the ranking use them: a  *)
(* pattern is a sequence of literal characters and of the tokens ANY (.),   *)
(* ANY+ (.+) and ANY? (.?), with the anchors ^ and $ and the flag i.  An    *)
(* alternation or an optional group is written as its alternatives.        *)

Re(atStart, atEnd, ignoreCase, tokens) ==
    [atStart |-> atStart, atEnd |-> atEnd, ignoreCase |-> ignoreCase,
     p |-> tokens]

\* A character matches a literal of the pattern.
SameChar(re, c, lit) ==
    IF re.ignoreCase THEN ToLowerCase(<<c>>) = ToLowerCase(<<lit>>) ELSE c = lit

\* The pattern from its token j on matches s from position i on.
RECURSIVE MatchHere(_, _, _, _)
MatchHere(s, i, re, j) ==
    IF j > Len(re.p) THEN ~re.atEnd \/ i = Len(s) + 1
    ELSE LET t == re.p[j]
         IN  IF t = "ANY+"
             THEN \E k \in (i + 1)..(Len(s) + 1) :
                     /\ \A m \in i..(k - 1) : s[m] \notin LineTerminators
                     /\ MatchHere(s, k, re, j + 1)
             ELSE IF t = "ANY?"
             THEN \/ MatchHere(s, i, re, j + 1)
                  \/ i <= Len(s) /\ s[i] \notin LineTerminators /\ MatchHere(s, i + 1, re, j + 1)
             ELSE IF t = "ANY"
             THEN i <= Len(s) /\ s[i] \notin LineTerminators /\ MatchHere(s, i + 1, re, j + 1)
             ELSE i <= Len(s) /\ SameChar(re, s[i], t)
                  /\ MatchHere(s, i + 1, re, j + 1)

\* RegExp.prototype.test of a pattern without the flag g.
Test(re, s) ==
    \E i \in (IF re.atStart THEN {1} ELSE 1..(Len(s) + 1)) : MatchHere(s, i, re, 1)

\* patterns.some(pattern => pattern.test(s))
SomeTest(patterns, s) == \E re \in patterns : Test(re, s)

---------------------------------------------------------------------------
(* The thorough relevance filter, stream-handler.ts:135-288.               *)

\* stream-handler.ts:141-175
excludePatterns ==
    {
    \* /^(docs?|documentation):/i
    Re(TRUE, FALSE, TRUE, <<"d","o","c",":">>),
    Re(TRUE, FALSE, TRUE, <<"d","o","c","s",":">>),
    Re(TRUE, FALSE, TRUE, <<"d","o","c","u","m","e","n","t","a","t","i","o","n",":">>),
    \* /^update readme/i
    Re(TRUE, FALSE, TRUE, <<"u","p","d","a","t","e"," ","r","e","a","d","m","e">>),
    \* /^fix typo/i
    Re(TRUE, FALSE, TRUE, <<"f","i","x"," ","t","y","p","o">>),
    \* /readme\.md$/i
    Re(FALSE, TRUE, TRUE, <<"r","e","a","d","m","e",".","m","d">>),
    \* /^bump .+ from .+ to .+/i
    Re(TRUE, FALSE, TRUE, <<"b","u","m","p"," ","ANY+"," ","f","r","o","m"," ","ANY+"," ","t","o"," ","ANY+">>),
    \* /^chore\(deps\)/i
    Re(TRUE, FALSE, TRUE, <<"c","h","o","r","e","(","d","e","p","s",")">>),
    \* /^\[release\]/i
    Re(TRUE, FALSE, TRUE, <<"[","r","e","l","e","a","s","e","]">>),
    \* /^\[ci\]/i
    Re(TRUE, FALSE, TRUE, <<"[","c","i","]">>),
    \* /^ci:/i
    Re(TRUE, FALSE, TRUE, <<"c","i",":">>),
    \* /github.?actions/i
    Re(FALSE, FALSE, TRUE, <<"g","i","t","h","u","b","ANY?","a","c","t","i","o","n","s">>),
    \* /\.github\//i
    Re(FALSE, FALSE, TRUE, <<".","g","i","t","h","u","b","/">>),
    \* /^\[test\]/i
    Re(TRUE, FALSE, TRUE, <<"[","t","e","s","t","]">>),
    \* /^test:/i
    Re(TRUE, FALSE, TRUE, <<"t","e","s","t",":">>),
    \* /^tests?:/i
    Re(TRUE, FALSE, TRUE, <<"t","e","s","t",":">>),
    Re(TRUE, FALSE, TRUE, <<"t","e","s","t","s",":">>),
    \* /unflake/i
    Re(FALSE, FALSE, TRUE, <<"u","n","f","l","a","k","e">>),
    \* /^refactor\(internal\)/i
    Re(TRUE, FALSE, TRUE, <<"r","e","f","a","c","t","o","r","(","i","n","t","e","r","n","a","l",")">>),
    \* /remove.+wrapper/i
    Re(FALSE, FALSE, TRUE, <<"r","e","m","o","v","e","ANY+","w","r","a","p","p","e","r">>),
    \* /replace uses of/i
    Re(FALSE, FALSE, TRUE, <<"r","e","p","l","a","c","e"," ","u","s","e","s"," ","o","f">>),
    \* /^style:/i
    Re(TRUE, FALSE, TRUE, <<"s","t","y","l","e",":">>),
    \* /^lint:/i
    Re(TRUE, FALSE, TRUE, <<"l","i","n","t",":">>),
    \* /prettier/i
    Re(FALSE, FALSE, TRUE, <<"p","r","e","t","t","i","e","r">>),
    \* /eslint/i
    Re(FALSE, FALSE, TRUE, <<"e","s","l","i","n","t">>)
    }

\* stream-handler.ts:178-220
includePatterns ==
    {
    \* /^perf/i
    Re(TRUE, FALSE, TRUE, <<"p","e","r","f">>),
    \* /performance/i
    Re(FALSE, FALSE, TRUE, <<"p","e","r","f","o","r","m","a","n","c","e">>),
    \* /optimize/i
    Re(FALSE, FALSE, TRUE, <<"o","p","t","i","m","i","z","e">>),
    \* /faster/i
    Re(FALSE, FALSE, TRUE, <<"f","a","s","t","e","r">>),
    \* /speed/i
    Re(FALSE, FALSE, TRUE, <<"s","p","e","e","d">>),
    \* /^feat/i
    Re(TRUE, FALSE, TRUE, <<"f","e","a","t">>),
    \* /add(?:ed)?.+support/i
    Re(FALSE, FALSE, TRUE, <<"a","d","d","ANY+","s","u","p","p","o","r","t">>),
    Re(FALSE, FALSE, TRUE, <<"a","d","d","e","d","ANY+","s","u","p","p","o","r","t">>),
    \* /new.+method/i
    Re(FALSE, FALSE, TRUE, <<"n","e","w","ANY+","m","e","t","h","o","d">>),
    \* /implement/i
    Re(FALSE, FALSE, TRUE, <<"i","m","p","l","e","m","e","n","t">>),
    \* /^fix/i
    Re(TRUE, FALSE, TRUE, <<"f","i","x">>),
    \* /bug/i
    Re(FALSE, FALSE, TRUE, <<"b","u","g">>),
    \* /issue/i
    Re(FALSE, FALSE, TRUE, <<"i","s","s","u","e">>),
    \* /error/i
    Re(FALSE, FALSE, TRUE, <<"e","r","r","o","r">>),
    \* /breaking/i
    Re(FALSE, FALSE, TRUE, <<"b","r","e","a","k","i","n","g">>),
    \* /deprecate/i
    Re(FALSE, FALSE, TRUE, <<"d","e","p","r","e","c","a","t","e">>),
    \* /remove(?:d)?.+api/i
    Re(FALSE, FALSE, TRUE, <<"r","e","m","o","v","e","ANY+","a","p","i">>),
    Re(FALSE, FALSE, TRUE, <<"r","e","m","o","v","e","d","ANY+","a","p","i">>),
    \* /typescript/i
    Re(FALSE, FALSE, TRUE, <<"t","y","p","e","s","c","r","i","p","t">>),
    \* /dx:/i
    Re(FALSE, FALSE, TRUE, <<"d","x",":">>),
    \* /developer.experience/i
    Re(FALSE, FALSE, TRUE, <<"d","e","v","e","l","o","p","e","r","ANY","e","x","p","e","r","i","e","n","c","e">>),
    \* /improve.+error/i
    Re(FALSE, FALSE, TRUE, <<"i","m","p","r","o","v","e","ANY+","e","r","r","o","r">>),
    \* /api/i
    Re(FALSE, FALSE, TRUE, <<"a","p","i">>),
    \* /endpoint/i
    Re(FALSE, FALSE, TRUE, <<"e","n","d","p","o","i","n","t">>),
    \* /client/i
    Re(FALSE, FALSE, TRUE, <<"c","l","i","e","n","t">>),
    \* /sdk/i
    Re(FALSE, FALSE, TRUE, <<"s","d","k">>),
    \* /stream/i
    Re(FALSE, FALSE, TRUE, <<"s","t","r","e","a","m">>),
    \* /websocket/i
    Re(FALSE, FALSE, TRUE, <<"w","e","b","s","o","c","k","e","t">>),
    \* /sse/i
    Re(FALSE, FALSE, TRUE, <<"s","s","e">>),
    \* /real.?time/i
    Re(FALSE, FALSE, TRUE, <<"r","e","a","l","ANY?","t","i","m","e">>)
    }

\* stream-handler.ts:233-241
relevantFiles ==
    {
    \* /\.ts$/
    Re(FALSE, TRUE, FALSE, <<".","t","s">>),
    \* /\.js$/
    Re(FALSE, TRUE, FALSE, <<".","j","s">>),
    \* /src\//
    Re(FALSE, FALSE, FALSE, <<"s","r","c","/">>),
    \* /lib\//
    Re(FALSE, FALSE, FALSE, <<"l","i","b","/">>),
    \* /api\//
    Re(FALSE, FALSE, FALSE, <<"a","p","i","/">>),
    \* /client/i
    Re(FALSE, FALSE, TRUE, <<"c","l","i","e","n","t">>),
    \* /index\./
    Re(FALSE, FALSE, FALSE, <<"i","n","d","e","x",".">>)
    }

\* stream-handler.ts:243-251
irrelevantFiles ==
    {
    \* /\.md$/
    Re(FALSE, TRUE, FALSE, <<".","m","d">>),
    \* /\.yml$/
    Re(FALSE, TRUE, FALSE, <<".","y","m","l">>),
    \* /\.json$/
    Re(FALSE, TRUE, FALSE, <<".","j","s","o","n">>),
    \* /test\//
    Re(FALSE, FALSE, FALSE, <<"t","e","s","t","/">>),
    \* /__tests__\//
    Re(FALSE, FALSE, FALSE, <<"_","_","t","e","s","t","s","_","_","/">>),
    \* /\.spec\./
    Re(FALSE, FALSE, FALSE, <<".","s","p","e","c",".">>),
    \* /\.test\./
    Re(FALSE, FALSE, FALSE, <<".","t","e","s","t",".">>)
    }

SubFix ==
    <<"f","i","x">>

PrefixPlus ==
    <<"+","+","+">>

PrefixMinus ==
    <<"-","-","-">>

\* stream-handler.ts:281  totalChanges < 10, and 286  totalChanges >= 10
MinChanges == 10

\* diff.split('\n')
RECURSIVE SplitLines(_, _)
SplitLines(text, acc) ==
    IF text = <<>> THEN <<acc>>
    ELSE IF Head(text) = "\n" THEN <<acc>> \o SplitLines(Tail(text), <<>>)
    ELSE SplitLines(Tail(text), Append(acc, Head(text)))

\* stream-handler.ts:259-268: the lines of the diff that start with +++ or
\* --- and match one of the patterns.
FileCount(diff, patterns) ==
    LET diffLines == SplitLines(diff, <<>>)
    IN  Cardinality({k \in 1..Len(diffLines) :
            /\ StartsWith(diffLines[k], PrefixPlus)
               \/ StartsWith(diffLines[k], PrefixMinus)
            /\ SomeTest(patterns, diffLines[k])})

\* (diff.match(/c[^c]/g) || []).length: the matches are found from left to
\* right and do not overlap.
RECURSIVE CountPairs(_, _, _)
CountPairs(s, i, c) ==
    IF i >= Len(s) THEN 0
    ELSE IF s[i] = c /\ s[i + 1] # c THEN 1 + CountPairs(s, i + 2, c)
    ELSE CountPairs(s, i + 1, c)

\* stream-handler.ts:275-277
TotalChanges(diff) == CountPairs(diff, 1, "+") + CountPairs(diff, 1, "-")

\* The callback with the inclusion patterns consulted before the exclusion
\* patterns.
RelevantPR_InclusionFirst(pr) ==
    LET title == ToLowerCase(pr.description)
        diff  == ToLowerCase(pr.diff)
    IN  IF SomeTest(includePatterns, title) THEN TRUE
        ELSE IF SomeTest(excludePatterns, title) THEN FALSE
        ELSE IF FileCount(diff, irrelevantFiles) > FileCount(diff, relevantFiles)
        THEN FALSE
        ELSE IF TotalChanges(diff) < MinChanges /\ ~Includes(title, SubFix)
        THEN FALSE
        ELSE TotalChanges(diff) >= MinChanges

\* stream-handler.ts:136-287: the callback of prs.filter.
RelevantPR(pr) ==
    LET title == ToLowerCase(pr.description)
        diff  == ToLowerCase(pr.diff)
    IN  IF SomeTest(excludePatterns, title) THEN FALSE
        ELSE IF SomeTest(includePatterns, title) THEN TRUE
        ELSE IF FileCount(diff, irrelevantFiles) > FileCount(diff, relevantFiles)
        THEN FALSE
        ELSE IF TotalChanges(diff) < MinChanges /\ ~Includes(title, SubFix)
        THEN FALSE
        ELSE TotalChanges(diff) >= MinChanges

\* stream-handler.ts:135-288
filterRelevantPRs(prs) == SelectSeq(prs, RelevantPR)

---------------------------------------------------------------------------
(* Pull requests given to the filters.                                     *)

TitleCiFixStream ==
    <<"[","C","I","]"," ","F","i","x"," ","s","t","r","e","a","m"," ","A","P","I">>

TitleFeatStreaming ==
    <<"f","e","a","t",":"," ","a","d","d"," ","s","t","r","e","a","m","i","n","g">>

TitleHotfix ==
    <<"H","o","t","f","i","x"," ","l","o","g","i","n">>

TitleTidy ==
    <<"T","i","d","y"," ","c","o","d","e">>

TitleBreaking ==
    <<"B","R","E","A","K","I","N","G",":"," ","d","r","o","p"," ","n","o","d","e"," ","1","4">>

TitleUpdateDeps ==
    <<"U","p","d","a","t","e"," ","d","e","p","s"," ","l","i","s","t">>

TitleDocsApi ==
    <<"d","o","c","s",":"," ","A","P","I"," ","g","u","i","d","e">>

TitleRebump ==
    <<"R","e","b","u","m","p"," ","c","a","c","h","e">>

TitleGithubActions ==
    <<"U","s","e"," ","G","i","t","H","u","b","-","A","c","t","i","o","n","s"," ","c","a","c","h","e">>

TitleAddSupport ==
    <<"A","d","d"," ","S","S","E"," ","s","u","p","p","o","r","t">>

TitleRemoveWrapper ==
    <<"R","e","m","o","v","e"," ","o","l","d"," ","w","r","a","p","p","e","r">>

TitlePrefixTest ==
    <<"P","r","e","f","i","x"," ","[","t","e","s","t","]"," ","n","a","m","e","s">>

\* titles with a carriage return where a pattern has `.+` or `.?`
TitleRemoveCrWrapper ==
    <<"R","e","m","o","v","e"," ","o","l","d","\r","w","r","a","p","p","e","r">>

TitleDeveloperCrExperience ==
    <<"D","e","v","e","l","o","p","e","r","\r","e","x","p","e","r","i","e","n","c","e">>

FilterTitles ==
    Titles \cup {TitleCiFixStream, TitleFeatStreaming, TitleHotfix, TitleTidy,
                   TitleBreaking, TitleUpdateDeps, TitleDocsApi, TitleRebump,
                   TitleGithubActions, TitleAddSupport, TitleRemoveWrapper, TitlePrefixTest,
                   TitleRemoveCrWrapper, TitleDeveloperCrExperience}

\* no change at all
DiffEmpty ==
    <<>>

\* one line of a source file replaced: 4 counted changes
DiffSmallSrc ==
    <<"-","-","-"," ","a","/","s","r","c","/","x",".","t","s","\n","+","+","+"," ","b","/","s","r","c","/","x",".","t","s","\n","-","a","\n","+","b">>

\* a source file, 9 counted changes
DiffNineSrc ==
    <<"-","-","-"," ","a","/","s","r","c","/","x",".","t","s","\n","+","+","+"," ","b","/","s","r","c","/","x",".","t","s","\n","-","a","\n","-","a","\n","-","a","\n","+","b","\n","+","b","\n","+","b","\n","+","b","\n">>

\* a source file, 10 counted changes
DiffTenSrc ==
    <<"-","-","-"," ","a","/","s","r","c","/","x",".","t","s","\n","+","+","+"," ","b","/","s","r","c","/","x",".","t","s","\n","-","a","\n","-","a","\n","-","a","\n","-","a","\n","+","b","\n","+","b","\n","+","b","\n","+","b","\n">>

\* a markdown file, 10 counted changes
DiffTenDocs ==
    <<"-","-","-"," ","a","/","R","E","A","D","M","E",".","m","d","\n","+","+","+"," ","b","/","R","E","A","D","M","E",".","m","d","\n","-","a","\n","-","a","\n","-","a","\n","-","a","\n","+","b","\n","+","b","\n","+","b","\n","+","b","\n">>

FilterDiffs == {DiffEmpty, DiffSmallSrc, DiffNineSrc, DiffTenSrc, DiffTenDocs}

FilterPRs == [id : {<<"1","0","1">>}, description : FilterTitles, diff : FilterDiffs]

LibUnchanged ==
    UNCHANGED <<pc, req, status, isClosed, aborted, ctrl, events, responseQueue,
                currentJson, notesFound, backend, hist, mgr, hook, pair>>

InitFilter ==
    /\ pc = "filter"
    /\ AtRest
    /\ pair = NoPair
    /\ \E pr \in FilterPRs :
          lib = [pc |-> "called", pr |-> pr, fast |-> FALSE, kept |-> <<>>]

\* route.ts:102  shouldIncludePR(prData), and sample-diffs/route.ts:94
\* filterRelevantPRs(diffs), each given the pull request.
ApplyFilters ==
    /\ pc = "filter" /\ lib.pc = "called"
    /\ lib' = [lib EXCEPT !.pc = "filtered",
                          !.fast = shouldIncludePR(lib.pr.description),
                          !.kept = filterRelevantPRs(<<lib.pr>>)]
    /\ LibUnchanged

NextFilter == ApplyFilters

SpecFilter == InitFilter /\ [][NextFilter]_vars

---------------------------------------------------------------------------
(* Truncation of a large diff, route.ts:365-375 and part_001:92-108.  A    *)
(* text is written here as its runs: Run(c, n) is the character c repeated *)
(* n times, and no two neighbouring runs hold the same character.          *)

\* Lengths of the diffs given to the truncation: from DefaultMaxLength minus
\* this span to DefaultMaxLength plus this span.
TruncSpan == 30

\* route.ts:365 and part_001:94  maxLength = 12000
DefaultMaxLength == 12000

\* A maxLength below the default, given to truncateForTokenLimit.
SmallMaxLength == 90

Run(c, n) == [c |-> c, n |-> n]

\* The concatenation of two texts.
Cat(a, b) ==
    IF a = <<>> THEN b
    ELSE IF b = <<>> THEN a
    ELSE IF a[Len(a)].c = b[1].c
    THEN SubSeq(a, 1, Len(a) - 1)
         \o <<Run(b[1].c, a[Len(a)].n + b[1].n)>> \o Tail(b)
    ELSE a \o b

\* String.prototype.length
RECURSIVE TextLength(_)
TextLength(t) == IF t = <<>> THEN 0 ELSE Head(t).n + TextLength(Tail(t))

\* The first k characters of a text.
RECURSIVE Take(_, _)
Take(t, k) ==
    IF k <= 0 \/ t = <<>> THEN <<>>
    ELSE IF Head(t).n <= k THEN Cat(<<Head(t)>>, Take(Tail(t), k - Head(t).n))
    ELSE <<Run(Head(t).c, k)>>

\* A text without its first k characters.
RECURSIVE Drop(_, _)
Drop(t, k) ==
    IF k <= 0 \/ t = <<>> THEN t
    ELSE IF Head(t).n <= k THEN Drop(Tail(t), k - Head(t).n)
    ELSE <<Run(Head(t).c, Head(t).n - k)>> \o Tail(t)

\* String.prototype.substring(start, end) for integer arguments: both are
\* clamped to 0..length and swapped when start > end.
Substring(t, start, end) ==
    LET len == TextLength(t)
        Clamp(x) == IF x < 0 THEN 0 ELSE IF x > len THEN len ELSE x
        a == IF Clamp(start) <= Clamp(end) THEN Clamp(start) ELSE Clamp(end)
        b == IF Clamp(start) <= Clamp(end) THEN Clamp(end) ELSE Clamp(start)
    IN  Take(Drop(t, a), b - a)

\* route.ts:374  "\n\n... [diff truncated due to size] ...\n\n"
DiffMarker ==
    <<Run("\n", 2), Run(".", 3), Run(" ", 1), Run("[", 1), Run("d", 1),
      Run("i", 1), Run("f", 2), Run(" ", 1), Run("t", 1), Run("r", 1),
      Run("u", 1), Run("n", 1), Run("c", 1), Run("a", 1), Run("t", 1),
      Run("e", 1), Run("d", 1), Run(" ", 1), Run("d", 1), Run("u", 1),
      Run("e", 1), Run(" ", 1), Run("t", 1), Run("o", 1), Run(" ", 1),
      Run("s", 1), Run("i", 1), Run("z", 1), Run("e", 1), Run("]", 1),
      Run(" ", 1), Run(".", 3), Run("\n", 2)>>

\* part_001:107  "\n\n... [content truncated due to size] ...\n\n"
ContentMarker ==
    <<Run("\n", 2), Run(".", 3), Run(" ", 1), Run("[", 1), Run("c", 1),
      Run("o", 1), Run("n", 1), Run("t", 1), Run("e", 1), Run("n", 1),
      Run("t", 1), Run(" ", 1), Run("t", 1), Run("r", 1), Run("u", 1),
      Run("n", 1), Run("c", 1), Run("a", 1), Run("t", 1), Run("e", 1),
      Run("d", 1), Run(" ", 1), Run("d", 1), Run("u", 1), Run("e", 1),
      Run(" ", 1), Run("t", 1), Run("o", 1), Run(" ", 1), Run("s", 1),
      Run("i", 1), Run("z", 1), Run("e", 1), Run("]", 1), Run(" ", 1),
      Run(".", 3), Run("\n", 2)>>

\* The greatest power of two that is at most n, for n >= 1.
RECURSIVE Pow2Below(_)
Pow2Below(n) == IF n < 2 THEN 1 ELSE 2 * Pow2Below(n \div 2)

\* maxLength * 0.7 without its fraction, as substring and Math.floor take
\* it.  The double 0.7 is 0.7 - 0.4 * 2^-53, so the product lies
\* 4k * 2^-53 below 7k for maxLength = 10k, and it is rounded to the double
\* below 7k where that is more than half the distance P * 2^-52 between
\* the doubles there, P being the greatest power of two up to 7k.
FloorTimes07(maxLength) ==
    IF maxLength > 0 /\ maxLength % 10 = 0
           /\ 4 * (maxLength \div 10) > Pow2Below(7 * (maxLength \div 10))
    THEN (maxLength * 7) \div 10 - 1
    ELSE (maxLength * 7) \div 10

\* route.ts:365-375.  substring drops the fraction of its arguments.  The
\* double 0.3 is 0.3 - 0.4 * 2^-54: maxLength * 0.3 is rounded to 3k for
\* maxLength = 10k, and diff.length - maxLength * 0.3 without its fraction
\* is the quotient below.
truncateDiffIfNeeded(diff, maxLength) ==
    IF TextLength(diff) <= maxLength THEN diff
    ELSE LET len       == TextLength(diff)
             firstPart == Substring(diff, 0, FloorTimes07(maxLength))
             lastPart  == Substring(diff, (10 * len - maxLength * 3) \div 10, len)
         IN  Cat(Cat(firstPart, DiffMarker), lastPart)

\* part_001:92-108
truncateForTokenLimit(text, maxLength) ==
    IF TextLength(text) <= maxLength THEN text
    ELSE LET len             == TextLength(text)
             firstPartLength == FloorTimes07(maxLength)
             lastPartLength  == (maxLength * 3) \div 10
             firstPart       == Substring(text, 0, firstPartLength)
             lastPart        == Substring(text, len - lastPartLength, len)
         IN  Cat(Cat(firstPart, ContentMarker), lastPart)

\* A diff of n characters: a file header and one long added line.
LongDiff(n) == <<Run("+", 3), Run(" ", 1), Run("b", 1), Run("\n", 1), Run("+", 1), Run("x", n - 7)>>

\* A diff of n characters whose added text quotes the marker of route.ts:374.
QuotingDiff(n) == Cat(Cat(<<Run("+", 1), Run("x", 9)>>, DiffMarker), <<Run("y", n - 50)>>)

TruncLengths == (DefaultMaxLength - TruncSpan)..(DefaultMaxLength + TruncSpan)

TruncDiffs == {LongDiff(n) : n \in TruncLengths} \cup {QuotingDiff(n) : n \in TruncLengths}

\* The values of maxLength given to truncateForTokenLimit: its default and
\* a small one.
TokenLimits == {DefaultMaxLength, SmallMaxLength}

InitTruncate ==
    /\ pc = "truncate"
    /\ AtRest
    /\ pair = NoPair
    /\ \E d \in TruncDiffs, m \in TokenLimits :
          lib = [pc |-> "called", diff |-> d, maxLength |-> m,
                 prompt |-> <<>>, limited |-> <<>>]

\* route.ts:40  truncateDiffIfNeeded(diffContent), and truncateForTokenLimit
\* given the same text and a maxLength.
ApplyTruncate ==
    /\ pc = "truncate" /\ lib.pc = "called"
    /\ lib' = [lib EXCEPT !.pc = "truncated",
                          !.prompt = truncateDiffIfNeeded(lib.diff, DefaultMaxLength),
                          !.limited = truncateForTokenLimit(lib.diff, lib.maxLength)]
    /\ LibUnchanged

NextTruncate == ApplyTruncate

SpecTruncate == InitTruncate /\ [][NextTruncate]_vars

---------------------------------------------------------------------------
(* Ranking, stream-handler.ts:293-322.                                     *)

\* stream-handler.ts:309-319: /breaking/i 100, /security/i 90, /^feat/i 80,
\* /^fix/i 70, /^perf/i 60, /api/i 50, /stream/i 40, /refactor/i 20,
\* /update/i 10.
ScoreRules ==
    <<
      [re |-> Re(FALSE, FALSE, TRUE, <<"b","r","e","a","k","i","n","g">>), points |-> 100],
      [re |-> Re(FALSE, FALSE, TRUE, <<"s","e","c","u","r","i","t","y">>), points |-> 90],
      [re |-> Re(TRUE, FALSE, TRUE, <<"f","e","a","t">>), points |-> 80],
      [re |-> Re(TRUE, FALSE, TRUE, <<"f","i","x">>), points |-> 70],
      [re |-> Re(TRUE, FALSE, TRUE, <<"p","e","r","f">>), points |-> 60],
      [re |-> Re(FALSE, FALSE, TRUE, <<"a","p","i">>), points |-> 50],
      [re |-> Re(FALSE, FALSE, TRUE, <<"s","t","r","e","a","m">>), points |-> 40],
      [re |-> Re(FALSE, FALSE, TRUE, <<"r","e","f","a","c","t","o","r">>), points |-> 20],
      [re |-> Re(FALSE, FALSE, TRUE, <<"u","p","d","a","t","e">>), points |-> 10]
    >>

\* The sum of the points of the rules from rule k on that match the title.
RECURSIVE ScoreFrom(_, _)
ScoreFrom(title, k) ==
    IF k > Len(ScoreRules) THEN 0
    ELSE (IF Test(ScoreRules[k].re, title) THEN ScoreRules[k].points ELSE 0)
         + ScoreFrom(title, k + 1)

\* stream-handler.ts:304-322
calculatePRScore(pr) == ScoreFrom(ToLowerCase(pr.description), 1)

Range(s) == {s[k] : k \in 1..Len(s)}

\* x put into a sorted array before the first element that the comparison
\* orders after it.
RECURSIVE SortedInsert(_, _, _)
SortedInsert(sorted, x, cmp) ==
    IF sorted = <<>> THEN <<x>>
    ELSE IF cmp[Head(sorted), x] > 0 THEN <<x>> \o sorted
    ELSE <<Head(sorted)>> \o SortedInsert(Tail(sorted), x, cmp)

\* Array.prototype.sort(compareFn): the elements ordered by the comparison,
\* those it holds equal in their former order.
RECURSIVE ArraySort(_, _)
ArraySort(arr, cmp) ==
    IF arr = <<>> THEN <<>>
    ELSE SortedInsert(ArraySort(SubSeq(arr, 1, Len(arr) - 1), cmp),
                      arr[Len(arr)], cmp)

\* rankPRs with the comparison scoreA - scoreB.
rankPRs_Ascending(prs) ==
    ArraySort(prs, [a \in Range(prs), b \in Range(prs) |->
                       calculatePRScore(a) - calculatePRScore(b)])

\* stream-handler.ts:293-299
rankPRs(prs) ==
    ArraySort(prs, [a \in Range(prs), b \in Range(prs) |->
                       calculatePRScore(b) - calculatePRScore(a)])

---------------------------------------------------------------------------
(* Pull requests given to rankPRs.                                         *)

\* Most pull requests in one array given to rankPRs.
MaxRank == 3

TitleUpdateBreaking ==
    <<"U","p","d","a","t","e"," ","b","r","e","a","k","i","n","g"," ","A","P","I">>

RankTitles ==
    {TitleBreaking, TitleUpdateDeps, TitleFeatStreaming, TitleFixParser, TitleTidy,
     TitleUpdateBreaking}

RankPRs == [id : {<<"1","0","1">>}, description : RankTitles, diff : {DiffEmpty}]

InitRank ==
    /\ pc = "rank"
    /\ AtRest
    /\ pair = NoPair
    /\ \E prs \in UNION {[1..n -> RankPRs] : n \in 0..MaxRank} :
          lib = [pc |-> "called", prs |-> prs, given |-> prs, ranked |-> <<>>]

\* sample-diffs/route.ts:97  rankPRs(relevantPrs).  prs.sort orders the
\* array it is given and returns that array (stream-handler.ts:294): after
\* the call lib.prs, the argument, and lib.ranked, the value returned, are
\* the one sorted array.  lib.given keeps the elements as they stood when
\* the function was called.
ApplyRank ==
    /\ pc = "rank" /\ lib.pc = "called"
    /\ lib' = [lib EXCEPT !.pc = "ranked",
                          !.prs = rankPRs(lib.prs),
                          !.ranked = rankPRs(lib.prs)]
    /\ LibUnchanged

NextRank == ApplyRank

SpecRank == InitRank /\ [][NextRank]_vars

---------------------------------------------------------------------------
(* Listing pull requests: GET of sample-diffs/route.ts:15-125.             *)

\* Most pull requests in one page of closed pull requests.
MaxBatch == 3

Digits == <<"0","1","2","3","4","5","6","7","8","9">>

\* Number.prototype.toString of a natural number.
RECURSIVE NumberToString(_)
NumberToString(n) ==
    IF n < 10 THEN <<Digits[n + 1]>>
    ELSE NumberToString(n \div 10) \o <<Digits[(n % 10) + 1]>>

\* Items of the answer of octokit.pulls.list: number, title, merged_at set
\* or null, and the diff its url serves.
ListItems ==
    {[number |-> 7,  title |-> TitleBreaking,      merged |-> TRUE,  diff |-> DiffEmpty],
     [number |-> 12, title |-> TitleUpdateDeps,    merged |-> TRUE,  diff |-> DiffTenSrc],
     [number |-> 13, title |-> TitleFeatStreaming, merged |-> TRUE,  diff |-> DiffSmallSrc],
     [number |-> 21, title |-> TitleCI,            merged |-> TRUE,  diff |-> DiffTenSrc],
     [number |-> 104, title |-> TitleFixParser,    merged |-> FALSE, diff |-> DiffTenSrc]}

\* The pages octokit.pulls.list may return: no pull request twice.
ListBatches ==
    {b \in UNION {[1..n -> ListItems] : n \in 0..MaxBatch} :
        \A i \in DOMAIN b, j \in DOMAIN b : b[i] = b[j] => i = j}

\* parseInt of the perPage parameter (default '5').
PerPages == {1, 2}

\* parseInt of the page parameter: NaN, 0 or a page number.
Pages == {[nan |-> TRUE, n |-> 0], [nan |-> FALSE, n |-> 0], [nan |-> FALSE, n |-> 1]}

\* isNaN(page) || page < 1
InvalidPage(page) == page.nan \/ page.n < 1

\* How the fetch of a diff settles (sample-diffs/route.ts:56): a response
\* that is ok, a response that is not, or a rejection.
FetchOutcomes == {"ok", "notOk", "throws"}

\* How diffResponse.text() settles (sample-diffs/route.ts:71): the body, or
\* a rejection.
TextOutcomes == {"ok", "textThrows"}

Null == [null |-> TRUE]

\* The async callback without its try/catch: a thrown error rejects the
\* promise.
diffsPromise_NoCatch(pr, outcome) ==
    IF outcome \in {"throws", "textThrows"} THEN [rejected |-> TRUE, value |-> Null]
    ELSE IF outcome = "notOk" THEN [rejected |-> FALSE, value |-> Null]
    ELSE [rejected |-> FALSE,
          value |-> [id |-> NumberToString(pr.number), description |-> pr.title,
                     diff |-> pr.diff]]

\* sample-diffs/route.ts:50-85: what the promise of the async callback of
\* prsToProcess.map settles to.  outcome is how its awaits went: the fetch
\* rejected ("throws"), the response was not ok ("notOk"), the reading of
\* the body rejected ("textThrows"), or the body was read ("ok").
diffsPromise(pr, outcome) ==
    IF outcome \in {"throws", "textThrows"} THEN [rejected |-> FALSE, value |-> Null]
    ELSE IF outcome = "notOk" THEN [rejected |-> FALSE, value |-> Null]
    ELSE [rejected |-> FALSE,
          value |-> [id |-> NumberToString(pr.number), description |-> pr.title,
                     diff |-> pr.diff]]

\* Array.prototype.slice(0, end) for 0 <= end.
Slice(arr, end) == SubSeq(arr, 1, IF end < Len(arr) THEN end ELSE Len(arr))

NoResponse == [status |-> 0, diffs |-> <<>>, hasMore |-> FALSE]

InitList ==
    /\ pc = "list"
    /\ AtRest
    /\ pair = NoPair
    /\ \E page \in Pages, perPage \in PerPages :
          lib = [pc |-> "called", page |-> page, perPage |-> perPage,
                 listed |-> FALSE, prsToProcess |-> <<>>, outcomes |-> <<>>, settled |-> <<>>,
                 relevantPrs |-> <<>>, rankedPrs |-> <<>>,
                 response |-> NoResponse]

\* sample-diffs/route.ts:25-31
ListInvalidPage ==
    /\ pc = "list" /\ lib.pc = "called"
    /\ InvalidPage(lib.page)
    /\ lib' = [lib EXCEPT !.pc = "responded", !.response.status = 400]
    /\ LibUnchanged

\* sample-diffs/route.ts:33-85: octokit.pulls.list returns a page; the merged
\* pull requests are kept and a fetch is started for each.
ListReturns(closedPrs) ==
    /\ pc = "list" /\ lib.pc = "called"
    /\ ~InvalidPage(lib.page)
    /\ LET mergedPrs    == SelectSeq(closedPrs, LAMBDA pr : pr.merged)
           prsToProcess == Slice(mergedPrs, lib.perPage * 3)
       IN  lib' = [lib EXCEPT !.pc = "fetching",
                              !.listed = TRUE,
                              !.prsToProcess = prsToProcess,
                              !.outcomes = [k \in DOMAIN prsToProcess |-> "pending"],
                              !.settled = [k \in DOMAIN prsToProcess |-> Null]]
    /\ LibUnchanged

\* sample-diffs/route.ts:33-39 and 112-125: octokit.pulls.list throws.
ListThrows ==
    /\ pc = "list" /\ lib.pc = "called"
    /\ ~InvalidPage(lib.page)
    /\ lib' = [lib EXCEPT !.pc = "responded", !.response.status = 500]
    /\ LibUnchanged

\* sample-diffs/route.ts:56-70 and 79-84: the fetch of item k settles.  A
\* response that is ok takes the callback to its second await, the reading
\* of the body; otherwise the callback returns null.
FetchSettles(k, outcome) ==
    /\ pc = "list" /\ lib.pc = "fetching"
    /\ k \in DOMAIN lib.prsToProcess
    /\ lib.outcomes[k] = "pending"
    /\ lib' = IF outcome = "ok"
              THEN [lib EXCEPT !.outcomes[k] = "body"]
              ELSE [lib EXCEPT !.outcomes[k] = outcome,
                               !.settled[k] = diffsPromise(lib.prsToProcess[k], outcome)]
    /\ LibUnchanged

\* sample-diffs/route.ts:71-84: diffResponse.text() of item k settles, and
\* the callback returns the record or, from its catch, null.
TextSettles(k, outcome) ==
    /\ pc = "list" /\ lib.pc = "fetching"
    /\ k \in DOMAIN lib.prsToProcess
    /\ lib.outcomes[k] = "body"
    /\ lib' = [lib EXCEPT !.outcomes[k] = outcome,
                          !.settled[k] = diffsPromise(lib.prsToProcess[k], outcome)]
    /\ LibUnchanged

\* sample-diffs/route.ts:87-125: Promise.all settles; the answer is made, or
\* the rejection is caught by the outer catch.  rankPRs sorts relevantPrs
\* itself and returns it (stream-handler.ts:294): relevantPrs and rankedPrs
\* are the one sorted array.
ListResponds ==
    /\ pc = "list" /\ lib.pc = "fetching"
    /\ \A k \in DOMAIN lib.outcomes : lib.outcomes[k] \notin {"pending", "body"}
    /\ IF \E k \in DOMAIN lib.settled : lib.settled[k].rejected
       THEN lib' = [lib EXCEPT !.pc = "responded", !.response.status = 500]
       ELSE LET diffsWithNulls == [k \in DOMAIN lib.settled |-> lib.settled[k].value]
                diffs          == SelectSeq(diffsWithNulls, LAMBDA d : d # Null)
                filtered       == filterRelevantPRs(diffs)
                rankedPrs      == rankPRs(filtered)
                relevantPrs    == rankedPrs
                finalPrs       == Slice(rankedPrs, lib.perPage)
            IN  lib' = [lib EXCEPT !.pc = "responded",
                                   !.relevantPrs = relevantPrs,
                                   !.rankedPrs = rankedPrs,
                                   !.response = [status |-> 200, diffs |-> finalPrs,
                                                 hasMore |-> Len(finalPrs) = lib.perPage]]
    /\ LibUnchanged

NextList ==
    \/ ListInvalidPage
    \/ \E closedPrs \in ListBatches : ListReturns(closedPrs)
    \/ ListThrows
    \/ \E k \in DOMAIN lib.prsToProcess, outcome \in FetchOutcomes :
          FetchSettles(k, outcome)
    \/ \E k \in DOMAIN lib.prsToProcess, outcome \in TextOutcomes :
          TextSettles(k, outcome)
    \/ ListResponds

SpecList == InitList /\ [][NextList]_vars

---------------------------------------------------------------------------
(* Vocabulary of the claims.                                               *)

\* start() has returned: the session is over.
Returned == pc = "returned"

CountType(T) == Cardinality({i \in 1..Len(events) : events[i].type \in T})

HasType(T) == \E i \in 1..Len(events) : events[i].type \in T

LastType == IF events = <<>> THEN "none" ELSE events[Len(events)].type

\* The backend raised an exception that the catch of its stage closes on
\* without an error event.
SilencedException ==
    \E i \in 1..Len(hist.raised) :
        \/ hist.raised[i].stage = "setup" /\ IsAbortedNoReset(hist.raised[i].err)
        \/ hist.raised[i].stage = "stream" /\ isAbortError(hist.raised[i].err)

CountOp(op) == Cardinality({i \in 1..Len(hist.ops) : hist.ops[i] = op})

---------------------------------------------------------------------------
(* C1 *)

\* C1 as stated: a session that is over and was not cancelled has emitted
\* exactly one event among notes, message and error.
C1_ExactlyOneOutcome ==
    (Returned /\ ~hist.cancelled) =>
        CountType({"notes", "message", "error"}) = 1

\* C1 as amended: a session that is over and was not cancelled has emitted at
\* most one notes, at most one message and at most one error event; a message
\* event excludes the two others; notes and error occur together only as
\* notes followed by error; and none of the three occurs only when the
\* session completed without extractable notes or closed on an exception its
\* catch treats as an abort.
C1_OutcomeEvents ==
    (Returned /\ ~hist.cancelled) =>
        /\ CountType({"notes"}) <= 1
        /\ CountType({"message"}) <= 1
        /\ CountType({"error"}) <= 1
        /\ HasType({"message"}) => ~HasType({"notes", "error"})
        /\ \A i, j \in 1..Len(events) :
              (events[i].type = "error" /\ events[j].type = "notes") => j < i
        /\ ~HasType({"notes", "message", "error"}) =>
              (LastType = "complete" \/ SilencedException)

\* A session that conveyed its outcome by one notes event and completed.
C1_Witness ==
    /\ Returned /\ ~hist.cancelled
    /\ CountType({"notes"}) = 1
    /\ LastType = "complete"

---------------------------------------------------------------------------
(* C2 *)

\* C2 as stated: a session that is over and was not cancelled has emitted
\* exactly one event among complete and error, and it is the last event.
C2_ExactlyOneTerminal ==
    (Returned /\ ~hist.cancelled) =>
        /\ CountType({"complete", "error"}) = 1
        /\ LastType \in {"complete", "error"}

\* C2 as amended: a session that is over and was not cancelled has emitted at
\* most one event among complete, error and message, which is then the last
\* event: message exactly on the relevance-rejected path, and none of the
\* three only when the backend raised an exception that the catch of its
\* stage treats as an abort.
C2_TerminalEvent ==
    (Returned /\ ~hist.cancelled) =>
        /\ CountType({"complete", "error", "message"}) <= 1
        /\ HasType({"complete", "error", "message"}) =>
              LastType \in {"complete", "error", "message"}
        /\ HasType({"message"}) <=> ~shouldIncludePR(req.description)
        /\ ~HasType({"complete", "error", "message"}) => SilencedException

\* A session ended by an error event after a progress-free backend failure.
C2_Witness ==
    /\ Returned /\ ~hist.cancelled
    /\ LastType = "error"
    /\ CountType({"complete", "error", "message"}) = 1

---------------------------------------------------------------------------
(* C3 *)

\* C3: once cancel() has run the abort signal is set and isClosed is true,
\* the close helper changes nothing, and no step of the session enqueues an
\* event, appends to the buffer or to the batch queue, or calls the
\* controller.
C3_CancelSilences ==
    /\ [](hist.cancelled =>
            /\ aborted
            /\ isClosed
            /\ safeClose(Session) = Session)
    /\ [][hist.cancelled =>
            /\ events' = events
            /\ currentJson' = currentJson
            /\ responseQueue' = responseQueue
            /\ ctrl' = ctrl
            /\ aborted'
            /\ isClosed']_vars

\* The client cancelled in mid-stream, the backend delivered another chunk
\* and the session ran to its end.
C3_Witness ==
    /\ hist.cancelled
    /\ Returned
    /\ hist.loopExit = "break"
    /\ currentJson # <<>>

---------------------------------------------------------------------------
(* C4 *)

\* C4: a complete or error event is the last event of its channel, and the
\* first event of a channel is its only start event.
C4_TerminalIsLast ==
    /\ \A i \in 1..Len(events) :
          events[i].type \in {"complete", "error"} => i = Len(events)
    /\ \A i \in 1..Len(events) : events[i].type = "start" <=> i = 1

\* An error event that follows a notes event and ends the channel.
C4_Witness ==
    /\ Returned
    /\ LastType = "error"
    /\ HasType({"notes"})

---------------------------------------------------------------------------
(* C5 *)

\* C5: a session's first action is to emit its one start event, which
\* carries the diffId of the request: before the filter is evaluated and
\* before the backend is called.
C5_StartFirst ==
    status = 200 =>
        /\ Len(events) >= 1
        /\ events[1] = StartEvent(req.diffId)
        /\ CountType({"start"}) = 1
        /\ hist.ops[1] = "start"
        /\ CountOp("start") = 1

\* A session for the second diffId that has called the backend.
C5_Witness ==
    /\ status = 200
    /\ req.diffId = "pr-2"
    /\ CountOp("filter") = 1
    /\ CountOp("create") = 1

---------------------------------------------------------------------------
(* C6 *)

\* C6: when shouldIncludePR rejects the record, as it does the title
\* "docs: update readme", the events are start then message, the channel is
\* closed by the session and the backend is never called.
C6_RejectedPath ==
    /\ (status = 200 /\ ~shouldIncludePR(req.description)) =>
          /\ events = <<StartEvent(req.diffId), MessageEvent>>
          /\ Returned
          /\ isClosed
          /\ CountOp("controller.close") = 1
          /\ CountOp("create") = 0
    /\ (status = 200 /\ req.description = TitleDocsReadme) =>
          /\ LastType = "message"
          /\ CountOp("create") = 0

\* The session of the title "docs: update readme" is over.
C6_Witness ==
    /\ status = 200
    /\ req.description = TitleDocsReadme
    /\ LastType = "message"
    /\ isClosed

---------------------------------------------------------------------------
(* C7 *)

\* C7 as stated: an exception of the backend call or of the backend stream
\* closes the channel without an error event when it is abort/reset-type
\* (isAbortError), and with exactly one error event, the last event,
\* otherwise.
C7_AbortTypeSilent ==
    \A i \in 1..Len(hist.raised) :
        hist.raised[i].stage \in {"setup", "stream"} =>
            /\ isClosed
            /\ IF isAbortError(hist.raised[i].err)
               THEN ~HasType({"error"})
               ELSE CountType({"error"}) = 1 /\ LastType = "error"

---------------------------------------------------------------------------
(* C8 *)

\* C8 as stated: a session ends without a message, complete or error event
\* only if the client cancelled or the controller refused an enqueue.
C8_SilentOnlyIfCancelled ==
    (Returned /\ ~HasType({"message", "complete", "error"})) =>
        (hist.cancelled \/ hist.enqueueRejected)

---------------------------------------------------------------------------
(* C9 *)

\* C9: a session emits at most one notes event, and after it no extraction
\* is attempted, in mid-stream or at the end, and only progress, complete and
\* error events follow.
C9_AtMostOneNotes ==
    /\ CountType({"notes"}) <= 1
    /\ \A i, j \in 1..Len(hist.ops) :
          (i < j /\ hist.ops[i] = "notes") =>
              hist.ops[j] \notin {"notes", "extract", "finalExtract"}
    /\ \A i, j \in 1..Len(events) :
          (i < j /\ events[i].type = "notes") =>
              events[j].type \in {"progress", "complete", "error"}

\* Notes found in mid-stream, a later batch of chunks flushed as progress,
\* and the session completed.
C9_Witness ==
    /\ Returned
    /\ LastType = "complete"
    /\ \E i, j \in 1..Len(events) :
          i < j /\ events[i].type = "notes" /\ events[j].type = "progress"

---------------------------------------------------------------------------
(* C10 *)

\* C10 as stated: the developer and marketing fields of every notes event
\* are strings and are not empty.
C10_NotesNonEmptyStrings ==
    \A i \in 1..Len(events) :
        events[i].type = "notes" =>
            /\ events[i].developer.t = "string"
            /\ events[i].developer.s # <<>>
            /\ events[i].marketing.t = "string"
            /\ events[i].marketing.s # <<>>

---------------------------------------------------------------------------
(* C11 *)

\* Vocabulary: the extraction attempts of the session, in order.
Attempts == hist.attempts

\* C11 as stated: no candidate extraction is ever attempted, in mid-stream
\* or at the end of the stream, on a buffer whose braces are not balanced
\* or that holds no pair of braces.
C11_NoAttemptUnbalanced ==
    \A i \in 1..Len(Attempts) : Attempts[i].balanced

\* C11, amended: in mid-stream no extraction is attempted on a buffer whose
\* braces are not balanced or that holds no pair of braces; only the one
\* attempt at the end of the stream, the last of the session, may be made
\* on such a buffer.
C11_GuardMidStream ==
    \A i \in 1..Len(Attempts) :
        /\ Attempts[i].at = "mid" => Attempts[i].balanced
        /\ ~Attempts[i].balanced => Attempts[i].at = "final" /\ i = Len(Attempts)

\* A balanced buffer was tried in mid-stream without result, a later chunk
\* unbalanced it with no attempt made, and the end of the stream tried the
\* unbalanced buffer.
C11_Witness ==
    /\ Returned
    /\ Len(Attempts) = 2
    /\ Attempts[1].at = "mid" /\ Attempts[1].balanced
    /\ Attempts[2].at = "final" /\ ~Attempts[2].balanced
    /\ Len(hist.contents) = 2

---------------------------------------------------------------------------
(* C12 *)

\* A notes event was delivered before the loop was left.
NotesBeforeFinal ==
    \E i, j \in 1..Len(hist.ops) :
        i < j /\ hist.ops[i] = "notes" /\ hist.ops[j] = "final"

\* C12 as stated: the last extraction over the whole buffer runs at most
\* once in a session, and only if the backend stream ended by itself (the
\* loop was not left by break after a cancellation or a closed channel) and
\* no notes event was sent during streaming.
C12_FinalizationOnlyAtNormalEnd ==
    /\ CountOp("finalExtract") <= 1
    /\ CountOp("finalExtract") = 1 =>
          /\ hist.loopExit = "done"
          /\ ~NotesBeforeFinal

---------------------------------------------------------------------------
(* C13 *)

\* The session reached the end of the backend stream with the client still
\* connected.
NormalEnd == Returned /\ hist.loopExit = "done" /\ HasType({"complete"})

\* A notes event carries the first two sentences of the buffer, each
\* trimmed and ended with a period.
SentenceNotesSent ==
    \E i \in 1..Len(events) :
        /\ events[i].type = "notes"
        /\ events[i].developer = JStr(Trim(Sentences(currentJson)[1]) \o <<".">>)
        /\ events[i].marketing = JStr(Trim(Sentences(currentJson)[2]) \o <<".">>)

\* C13 as stated: at the normal end of the stream, if no notes event was
\* sent before and the buffer split on '.', '!', '?' has at least two
\* fragments of trimmed length over 10, a notes event is sent with the first
\* fragment as developer and the second as marketing, each trimmed and ended
\* with a period.
C13_SentenceFallback ==
    (NormalEnd /\ ~NotesBeforeFinal /\ Len(Sentences(currentJson)) >= 2)
        => SentenceNotesSent

---------------------------------------------------------------------------
(* C14 *)

\* The content-bearing chunks the loop has taken, in order of arrival.
Contents == hist.contents

\* The texts of the progress events, in order.
RECURSIVE ProgressTexts(_)
ProgressTexts(evs) ==
    IF evs = <<>> THEN <<>>
    ELSE IF Head(evs).type = "progress"
         THEN <<Head(evs).text>> \o ProgressTexts(Tail(evs))
         ELSE ProgressTexts(Tail(evs))

Flushed == BatchThreshold * (Len(Contents) \div BatchThreshold)

\* C14: a progress event is sent exactly when the content-bearing chunks
\* since the previous flush number 5, so the k-th progress event is the
\* concatenation of the chunks 5k-4 .. 5k in order of arrival; the queue
\* holds the chunks taken since the last flush and is empty right after
\* one; a chunk without content changes neither the queue nor the events.
C14_ProgressBatches ==
    /\ Len(ProgressTexts(events)) = Len(Contents) \div BatchThreshold
    /\ \A k \in 1..Len(ProgressTexts(events)) :
          ProgressTexts(events)[k] =
              Join(SubSeq(Contents, BatchThreshold * (k - 1) + 1, BatchThreshold * k))
    /\ responseQueue = SubSeq(Contents, Flushed + 1, Len(Contents))
    /\ Len(responseQueue) < BatchThreshold

\* Two flushes have happened, the second just now, with a chunk without
\* content among the ten that have one.
C14_Witness ==
    /\ pc = "streaming"
    /\ Len(ProgressTexts(events)) = 2
    /\ responseQueue = <<>>
    /\ backend.n > Len(Contents)

---------------------------------------------------------------------------
(* C15 *)

\* C15 as stated: in a session that ended with complete, the client
\* connected throughout, the texts of the progress events, concatenated in
\* order, are the final accumulation buffer.
C15_ProgressMirrorsBuffer ==
    (Returned /\ LastType = "complete" /\ ~hist.cancelled)
        => Join(ProgressTexts(events)) = currentJson

---------------------------------------------------------------------------
(* C16 *)

\* An exception of the backend that its catch reports with an error event.
ReportedException ==
    \E i \in 1..Len(hist.raised) :
        \/ hist.raised[i].stage = "setup" /\ ~IsAbortedNoReset(hist.raised[i].err)
        \/ hist.raised[i].stage = "stream" /\ ~isAbortError(hist.raised[i].err)

\* C16: an extraction attempt that comes to nothing, in mid-stream or at the
\* end, sends no error event (an error event comes from an exception of the
\* backend only), does not end the loop (the loop is left by break only
\* once the channel is closed), and does not keep the session from
\* complete when the stream ends with the client connected.
C16_ExtractionFailureSwallowed ==
    /\ HasType({"error"}) => ReportedException
    /\ hist.loopExit = "break" => hist.cancelled \/ hist.enqueueRejected
    /\ (Returned /\ hist.loopExit = "done" /\ ~hist.cancelled) => LastType = "complete"
    /\ (pc = "streaming" /\ ~hist.cancelled) => ~isClosed

\* An attempt failed in mid-stream, the session went on to take another
\* chunk, the attempt at the end failed as well, and complete was sent.
C16_Witness ==
    /\ Returned
    /\ LastType = "complete"
    /\ ~HasType({"notes", "error"})
    /\ Len(Attempts) = 2
    /\ Attempts[1].at = "mid" /\ ~Attempts[1].found
    /\ Attempts[2].at = "final" /\ ~Attempts[2].found
    /\ Len(Contents) = 2

---------------------------------------------------------------------------
(* C17 *)

\* The calls a manager's methods made of controller.enqueue / close.
CallsOf(M, what) == Cardinality({i \in 1..Len(M.calls) : M.calls[i] = what})

\* C17: once a channel is closed or cancelled (its closed flag is true), of
\* POST or of a StreamManager, the flag stays true, no step delivers an
\* event on it, safeEnqueue makes no call of controller.enqueue (none that
\* succeeds and none that throws), and every sendEvent called on a closed
\* manager returned false.
C17_ClosedChannelSilent ==
    /\ [](\A i \in 1..Len(mgr.sends) : mgr.sends[i].closed => ~mgr.sends[i].ret)
    /\ [][/\ isClosed =>
               /\ isClosed'
               /\ events' = events
               /\ hist'.enqueueRejected = hist.enqueueRejected
          /\ closed(mgr) =>
               /\ closed(mgr')
               /\ mgr'.frames = mgr.frames
               /\ CallsOf(mgr', "enqueue") = CallsOf(mgr, "enqueue")]_vars

\* A manager delivered an event, was closed, and a later sendEvent on it
\* returned false and delivered nothing.
C17_Witness ==
    /\ Len(mgr.sends) = 2
    /\ ~mgr.sends[1].closed /\ mgr.sends[1].ret
    /\ mgr.sends[2].closed /\ ~mgr.sends[2].ret
    /\ Len(mgr.frames) = 1
    /\ mgr.closes = 1

---------------------------------------------------------------------------
(* C18 *)

\* C18: on a channel of POST or of a StreamManager, a second safeClose
\* leaves the state as the first one left it, a safeClose on a channel that
\* is closed or cancelled changes nothing, and the helper calls
\* controller.close at most once in a session (a call that throws is
\* caught and counted).
C18_CloseIdempotent ==
    /\ CountOp("controller.close") <= 1
    /\ CallsOf(mgr, "close") <= 1
    /\ status = 200 =>
          /\ safeClose(safeClose(Session)) = safeClose(Session)
          /\ isClosed => safeClose(Session) = Session
    /\ mgr.pc # "none" =>
          /\ ManagerSafeClose(ManagerSafeClose(mgr)) = ManagerSafeClose(mgr)
          /\ closed(mgr) => ManagerSafeClose(mgr) = mgr

\* safeClose was called twice on a manager that had delivered an event, the
\* second time after a cancellation, and called controller.close once.
C18_Witness ==
    /\ mgr.closes = 2
    /\ mgr.cancelled
    /\ CallsOf(mgr, "close") = 1
    /\ Len(mgr.frames) = 1

---------------------------------------------------------------------------
(* C19 *)

\* C19: start() never returns with the closed flag false, a cancellation
\* sets the flag at once, and every session whose stream was constructed
\* comes to have the flag true once the backend call has settled and its
\* stream has ended or thrown.
C19_EventuallyClosed ==
    /\ [](Returned => isClosed)
    /\ [](hist.cancelled => isClosed)
    /\ (status = 200) ~> isClosed

\* A session closed by the outer catch after the backend stream threw, the
\* client connected throughout.
C19_Witness ==
    /\ Returned
    /\ isClosed
    /\ ~hist.cancelled
    /\ hist.loopExit = "throw"
    /\ LastType = "error"

---------------------------------------------------------------------------
(* C20 *)

\* An event of the server as the value the client holds for it: the
\* members JSON.stringify writes, each with its value.
Received(ev) ==
    [type      |-> ev.type,
     diffId    |-> IF ev.type = "start" THEN JStr(<<ev.diffId>>) ELSE Undefined,
     data      |-> IF ev.type \in {"progress", "message"} THEN JStr(ev.text) ELSE Undefined,
     developer |-> IF ev.type = "notes" THEN ev.developer ELSE Undefined,
     marketing |-> IF ev.type = "notes" THEN ev.marketing ELSE Undefined,
     error     |-> IF ev.type = "error" THEN JStr(ev.error) ELSE Undefined]

ReceivedAll(evs) == [i \in DOMAIN evs |-> Received(evs[i])]

\* C20 as stated: however the frames of the response are cut into reads,
\* the hook passes to handleStreamEvent the events the server sent, each
\* once and in order: at any time a prefix of them, all of them when the
\* response has been read to its end.
C20_ClientDispatchesAll ==
    /\ Len(hook.dispatched) <= Len(hook.sent)
    /\ hook.dispatched = SubSeq(ReceivedAll(hook.sent), 1, Len(hook.dispatched))
    /\ hook.pc = "done" => hook.dispatched = ReceivedAll(hook.sent)

---------------------------------------------------------------------------
(* C22 *)

\* The exception raised before the stream is returned, if any.
PostRaised ==
    \E i \in 1..Len(hist.raised) : hist.raised[i].stage = "post"

\* C22: a request whose diffContent is missing is answered with status 400
\* and never enters the session: no channel is constructed, no event is
\* sent, the filter is not consulted and the backend is not called.
C22_MissingDiffRejected ==
    ~req.hasDiff =>
        /\ pc \in {"idle", "responded"}
        /\ pc = "responded" /\ ~PostRaised => status = 400
        /\ status # 200
        /\ ctrl = "none"
        /\ events = <<>>
        /\ hist.ops = <<>>
        /\ CountOp("filter") = 0
        /\ CountOp("create") = 0

\* A request without diffContent answered with 400.
C22_Witness ==
    /\ ~req.hasDiff
    /\ pc = "responded"
    /\ status = 400
    /\ events = <<>>

---------------------------------------------------------------------------
(* C23 *)

\* The exception raised before the stream is returned is abort/reset-type.
PostRaisedAbort ==
    \E i \in 1..Len(hist.raised) :
        hist.raised[i].stage = "post" /\ isAbortError(hist.raised[i].err)

\* C23 as stated: the response status is 400 exactly for a missing
\* diffContent, 499 exactly for an abort/reset-type exception raised before
\* the stream is returned, 500 for any other such exception, and 200
\* otherwise.
C23_StatusCodes ==
    pc # "idle" =>
        /\ status = 400 <=> ~PostRaised /\ ~req.hasDiff
        /\ status = 499 <=> PostRaisedAbort
        /\ status = 500 <=> PostRaised /\ ~PostRaisedAbort
        /\ status = 200 <=> ~PostRaised /\ req.hasDiff

---------------------------------------------------------------------------
(* C24 *)

\* C24: the backend call is issued at most once per session, and it is
\* neither repeated nor retried after an error.
C24_BackendCalledOnce ==
    /\ CountOp("create") <= 1
    /\ CountOp("create") = 1 => status = 200 /\ shouldIncludePR(req.description)

\* A session whose backend stream threw while it was consumed, reported
\* with an error event, with the one backend call it made.
C24_Witness ==
    /\ Returned
    /\ hist.loopExit = "throw"
    /\ LastType = "error"
    /\ CountOp("create") = 1

---------------------------------------------------------------------------
(* C21 *)

\* What the claim observes of invocation i: its accumulation buffer, batch
\* queue, notes-found flag, closed flag, abort signal, and the events it has
\* emitted with the state of their controller.
Observed(P, i) == [field \in DOMAIN Fresh |-> Bind(P, i, field)]

\* C21: two sessions running at once share no mutable state: a step, an
\* error or a cancellation of one leaves the other's buffer, queue,
\* notes-found flag, closed flag, abort signal and emitted events unchanged.
C21_SessionsIndependent ==
    [][pair.pc = "pair" =>
          \A i \in Invocations :
              pair'.last # i => Observed(pair', i) = Observed(pair, i)]_vars

\* One session has ended with notes and complete while the other, which
\* received different text, was cancelled in mid-stream.
C21_Witness ==
    /\ pair.pc = "pair"
    /\ pair.inv[1].pc = "returned"
    /\ \E k \in 1..Len(pair.inv[1].own.events) :
          pair.inv[1].own.events[k].type = "notes"
    /\ pair.inv[2].pc = "streaming"
    /\ pair.inv[2].hist.cancelled
    /\ pair.inv[2].own.isClosed /\ ~pair.inv[1].hist.cancelled
    /\ pair.inv[2].own.currentJson = TextChunk
    /\ pair.inv[2].own.responseQueue = <<TextChunk>>

---------------------------------------------------------------------------
(* C25, C26, C27 *)

\* The filters have been applied to the pull request.
Filtered == pc = "filter" /\ lib.pc = "filtered"

FilterTitle == ToLowerCase(lib.pr.description)

FilterDiff == ToLowerCase(lib.pr.diff)

TitleExcluded == SomeTest(excludePatterns, FilterTitle)

TitleIncluded == SomeTest(includePatterns, FilterTitle)

\* The thorough filter kept the pull request.
Kept == lib.kept = <<lib.pr>>

\* The thorough filter dropped the pull request.
Dropped == lib.kept = <<>>

\* The title decides nothing and the irrelevant paths do not outnumber the
\* relevant ones.
ReachesSizeHeuristic ==
    /\ ~TitleExcluded
    /\ ~TitleIncluded
    /\ FileCount(FilterDiff, irrelevantFiles) <= FileCount(FilterDiff, relevantFiles)

\* C25 as stated: a pull request that reaches the size heuristic with fewer
\* than 10 counted changes is excluded unless its title contains "fix", in
\* which case it is kept.
C25_SmallFixKept ==
    Filtered /\ ReachesSizeHeuristic /\ TotalChanges(FilterDiff) < MinChanges =>
        /\ Kept \/ Dropped
        /\ Kept <=> Includes(FilterTitle, SubFix)

\* C26: in the thorough filter a title that matches an exclusion pattern is
\* dropped even when it also matches an inclusion pattern, and a title that
\* matches an inclusion pattern and no exclusion pattern is kept whatever
\* the paths and the size of its diff.
C26_ExclusionFirst ==
    Filtered =>
        /\ Kept \/ Dropped
        /\ TitleExcluded => Dropped
        /\ TitleIncluded /\ ~TitleExcluded => Kept

\* "[CI] Fix stream API" matches the exclusion pattern /^\[ci\]/ and the
\* inclusion patterns /api/ and /stream/, and is dropped although its diff
\* changes a source file by 10 lines.
C26_Witness ==
    /\ Filtered
    /\ lib.pr.description = TitleCiFixStream
    /\ lib.pr.diff = DiffTenSrc
    /\ TitleExcluded /\ TitleIncluded
    /\ Dropped

\* C27: shouldIncludePR depends on the title only: it is false exactly when
\* the lower-cased title contains "[test]", "[ci]" or "readme" or starts with
\* "bump ", and true for every other title, "fix: null pointer in parser"
\* among them, whatever the diff holds.
C27_FastFilterByTitle ==
    Filtered =>
        /\ lib.fast \in BOOLEAN
        /\ ~lib.fast <=> \/ Includes(FilterTitle, SubTestTag)
                         \/ Includes(FilterTitle, SubCiTag)
                         \/ Includes(FilterTitle, SubReadme)
                         \/ StartsWith(FilterTitle, SubBump)
        /\ lib.pr.description \in {TitleFixParser, TitleRebump, TitleHotfix} => lib.fast
        /\ lib.pr.description \in {TitleCI, TitleBump, TitleDocsReadme,
                                   TitlePrefixTest, TitleCiFixStream} => ~lib.fast

\* "[CI] cache", typed in upper case, judged irrelevant by the fast filter
\* with a diff of 10 changes to a source file.
C27_Witness ==
    /\ Filtered
    /\ lib.pr.description = TitleCI
    /\ lib.pr.diff = DiffTenSrc
    /\ ~lib.fast

---------------------------------------------------------------------------
(* C28 *)

\* The number of places where the marker stands in a text: its runs in
\* order, the inner ones whole, the outer ones at least as long.
MarkerCount(t, marker) ==
    Cardinality({k \in 1..(Len(t) - Len(marker) + 1) :
        \A j \in 1..Len(marker) :
            /\ t[k + j - 1].c = marker[j].c
            /\ IF j \in {1, Len(marker)} THEN t[k + j - 1].n >= marker[j].n
               ELSE t[k + j - 1].n = marker[j].n})

\* C28 as stated: for every diff longer than the threshold the truncated
\* diff holds exactly one truncation marker and is at most as long as the
\* threshold, with truncateDiffIfNeeded and with truncateForTokenLimit.
C28_TruncatedWithinThreshold ==
    (pc = "truncate" /\ lib.pc = "truncated"
        /\ TextLength(lib.diff) > DefaultMaxLength) =>
        /\ MarkerCount(lib.prompt, DiffMarker) = 1
        /\ TextLength(lib.prompt) <= DefaultMaxLength
        /\ MarkerCount(lib.limited, ContentMarker) = 1
        /\ TextLength(lib.limited) <= lib.maxLength

---------------------------------------------------------------------------
(* C29 *)

SubBreaking ==
    <<"b","r","e","a","k","i","n","g">>

\* The scoring rules a title matches.
RulesMatched(pr) ==
    {k \in 1..Len(ScoreRules) : Test(ScoreRules[k].re, ToLowerCase(pr.description))}

\* The title matches /update/ and no other scoring rule.
UpdateOnly(pr) ==
    /\ RulesMatched(pr) # {}
    /\ \A k \in RulesMatched(pr) : ScoreRules[k].points = 10

Occurrences(arr, x) == Cardinality({k \in 1..Len(arr) : arr[k] = x})

\* C29: rankPRs puts every record whose title contains "breaking" before
\* every record whose title matches only "update" among the scoring
\* keywords, orders its output by non-increasing score, and neither adds
\* nor drops a record.
C29_RankOrder ==
    pc = "rank" /\ lib.pc = "ranked" =>
        /\ Len(lib.ranked) = Len(lib.given)
        /\ \A x \in Range(lib.given) \cup Range(lib.ranked) :
              Occurrences(lib.ranked, x) = Occurrences(lib.given, x)
        /\ \A i \in 1..Len(lib.ranked), j \in 1..Len(lib.ranked) :
              /\ i < j => calculatePRScore(lib.ranked[i]) >= calculatePRScore(lib.ranked[j])
              /\ Includes(ToLowerCase(lib.ranked[i].description), SubBreaking)
                 /\ UpdateOnly(lib.ranked[j]) => i < j

\* "Update deps list", "BREAKING: drop node 14", "feat: add streaming" given
\* in this order and returned in the reverse order; the array that was
\* given now holds them in the order returned.
C29_Witness ==
    /\ pc = "rank" /\ lib.pc = "ranked"
    /\ Len(lib.given) = 3
    /\ lib.given[1].description = TitleUpdateDeps
    /\ lib.given[2].description = TitleBreaking
    /\ lib.given[3].description = TitleFeatStreaming
    /\ lib.ranked = <<lib.given[3], lib.given[2], lib.given[1]>>
    /\ lib.prs = lib.ranked

---------------------------------------------------------------------------
(* C30 *)

\* The record the listing makes of item k once its diff is fetched.
Fetched(k) ==
    [id |-> NumberToString(lib.prsToProcess[k].number),
     description |-> lib.prsToProcess[k].title,
     diff |-> lib.prsToProcess[k].diff]

\* The items whose diff was fetched and which pass the thorough filter.
Eligible ==
    {k \in DOMAIN lib.prsToProcess : lib.outcomes[k] = "ok" /\ RelevantPR(Fetched(k))}

\* C30: once the list of pull requests is obtained, a diff that cannot be
\* fetched (non-OK response or thrown error) drops that item only: the
\* answer has status 200 and holds the merged items that were fetched and
\* pass the thorough filter, the perPage best ranked of them when there are
\* more, without repetition and in order of rank.
C30_FailedFetchSkipped ==
    pc = "list" /\ lib.pc = "responded" /\ lib.listed =>
        LET diffs == lib.response.diffs
        IN  /\ lib.response.status = 200
            /\ \A k \in DOMAIN lib.prsToProcess : lib.prsToProcess[k].merged
            /\ Len(diffs) = IF Cardinality(Eligible) < lib.perPage
                            THEN Cardinality(Eligible) ELSE lib.perPage
            /\ \A i \in 1..Len(diffs) : \E k \in Eligible : diffs[i] = Fetched(k)
            /\ \A i \in 1..Len(diffs), j \in 1..Len(diffs) :
                  /\ diffs[i] = diffs[j] => i = j
                  /\ i < j => calculatePRScore(diffs[i]) >= calculatePRScore(diffs[j])
            /\ \A k \in Eligible :
                  Fetched(k) \notin Range(diffs) =>
                      \A i \in 1..Len(diffs) :
                          calculatePRScore(diffs[i]) >= calculatePRScore(Fetched(k))

\* Of three merged pull requests the fetch of the best ranked one threw; the
\* answer is 200 with the two others, "BREAKING: drop node 14" before
\* "Update deps list", which were fetched in the other order.
C30_Witness ==
    /\ pc = "list" /\ lib.pc = "responded" /\ lib.listed
    /\ lib.perPage = 2
    /\ Len(lib.prsToProcess) = 3
    /\ lib.prsToProcess[1].title = TitleFeatStreaming
    /\ lib.prsToProcess[2].title = TitleUpdateDeps
    /\ lib.prsToProcess[3].title = TitleBreaking
    /\ lib.outcomes = <<"throws", "ok", "ok">>
    /\ \A k \in DOMAIN lib.settled : ~lib.settled[k].rejected
    /\ lib.relevantPrs = lib.rankedPrs
    /\ lib.response.status = 200
    /\ Len(lib.response.diffs) = 2
    /\ lib.response.diffs[1].description = TitleBreaking
    /\ lib.response.diffs[2].description = TitleUpdateDeps

---------------------------------------------------------------------------
(* C31 *)

\* The flat objects of the buffer that JSON.parse accepts and that have a
\* string developer and a string marketing, each as its parse.
NotesObjects ==
    {JSONParse(SubSeq(currentJson, i, j)) :
        <<i, j>> \in {p \in (1..Len(currentJson)) \X (1..Len(currentJson)) :
            /\ p[1] < p[2]
            /\ currentJson[p[1]] = LB /\ currentJson[p[2]] = RB
            /\ \A k \in (p[1] + 1)..(p[2] - 1) : ~IsBrace(currentJson[k])
            /\ JSONParse(SubSeq(currentJson, p[1], p[2])).ok
            /\ Get(JSONParse(SubSeq(currentJson, p[1], p[2])), "developer").t = "string"
            /\ Get(JSONParse(SubSeq(currentJson, p[1], p[2])), "marketing").t = "string"}}

\* C31 as stated: at the normal end of the stream with the client connected,
\* if the buffer holds a flat well-formed object with string fields
\* developer and marketing, a notes event with exactly these two values has
\* been sent, whatever text or brace-delimited fragments stand before or
\* after the object.
C31_NotesObjectFound ==
    (NormalEnd /\ NotesObjects # {}) =>
        \E o \in NotesObjects : \E i \in 1..Len(events) :
            /\ events[i].type = "notes"
            /\ events[i].developer = Get(o, "developer")
            /\ events[i].marketing = Get(o, "marketing")

---------------------------------------------------------------------------
(* C32 *)

\* C32 as stated: the two relevance tiers agree along the user's path; every
\* pull request that filterRelevantPRs keeps for the listing is also
\* accepted by shouldIncludePR, the gate whose refusal the analysis route
\* answers with the message event.
C32_ListedIsAnalysed ==
    Filtered /\ Kept => lib.fast

---------------------------------------------------------------------------
(* useDiffAnalysis.ts: the state of one instance of the hook over calls of *)
(* analyzeDiff and resetState.  hook.state is the AnalysisState,           *)
(* hook.isAnalyzing is isAnalyzingRef.current, and hook.calls holds one    *)
(* record per call of analyzeDiff that passed the guard: where the call    *)
(* stands, the bytes of its response still to be read, its buffer, the     *)
(* events it handed to handleStreamEvent, and whether resetState ran after *)
(* the call began.                                                         *)

\* 'An unknown error occurred'
MsgUnknownOccurred ==
    <<"A","n"," ","u","n","k","n","o","w","n"," ","e","r","r","o","r"," ","o","c","c","u","r","r","e","d">>

\* 'An error occurred while analyzing the diff'
MsgAnalyzingFailed ==
    <<"A","n"," ","e","r","r","o","r"," ","o","c","c","u","r","r","e","d"," ","w","h","i","l","e"," ",
      "a","n","a","l","y","z","i","n","g"," ","t","h","e"," ","d","i","f","f">>

\* useDiffAnalysis.ts:15-21, 131-137 and 207-213: the state object with
\* every field but loading at its initial value.
AnalysisState(loading) ==
    [loading |-> loading, error |-> JNull, notes |-> JNull,
     streamProgress |-> <<>>, messageInfo |-> JNull]

\* useDiffAnalysis.ts:92-101  isValidNotesData, on the data of a notes event.
isValidNotesData(event) ==
    event.developer.t = "string" /\ event.marketing.t = "string"

\* useDiffAnalysis.ts:28-87  handleStreamEvent, on an event as JSON.parse
\* returned it.
handleStreamEvent(H, event) ==
    CASE event.type = "start" ->
            [H EXCEPT !.state.loading = TRUE]
      [] event.type = "progress" ->
            IF event.data.t = "string"
            THEN [H EXCEPT !.state.streamProgress = event.data.s]
            ELSE H
      [] event.type = "notes" ->
            IF isValidNotesData(event)
            THEN [H EXCEPT !.state.notes =
                     [t |-> "notes", s |-> <<event.developer.s, event.marketing.s>>]]
            ELSE H
      [] event.type = "complete" ->
            [H EXCEPT !.state.loading = FALSE, !.state.streamProgress = <<>>,
                      !.isAnalyzing = FALSE]
      [] event.type = "message" ->
            IF event.data.t = "string"
            THEN [H EXCEPT !.state.messageInfo = event.data,
                           !.state.loading = FALSE, !.state.streamProgress = <<>>,
                           !.isAnalyzing = FALSE]
            ELSE H
      [] event.type = "error" ->
            [H EXCEPT !.state.loading = FALSE,
                      !.state.error = Or(event.error, JStr(MsgUnknownOccurred)),
                      !.isAnalyzing = FALSE]
      [] OTHER -> H

\* useDiffAnalysis.ts:179-186: handleStreamEvent on each event in order.
RECURSIVE HandleAll(_, _)
HandleAll(H, evs) ==
    IF evs = <<>> THEN H ELSE HandleAll(handleStreamEvent(H, Head(evs)), Tail(evs))

\* useDiffAnalysis.ts:188-198: the catch and the finally of analyzeDiff.
analyzeCatch(H, e) ==
    [(IF e.isError /\ e.name # "AbortError"
      THEN [H EXCEPT !.state.error = JStr(IF e.message = <<>> THEN MsgAnalyzingFailed
                                          ELSE e.message),
                     !.state.loading = FALSE]
      ELSE H)
        EXCEPT !.isAnalyzing = FALSE]

\* useDiffAnalysis.ts:196-198: the finally of analyzeDiff after the loop
\* has left through break.
analyzeFinally(H) == [H EXCEPT !.isAnalyzing = FALSE]

\* The calls of analyzeDiff one instance makes in the behaviours explored.
HookCalls == {1, 2}

\* 'Failed to analyze diff: Bad Request' (useDiffAnalysis.ts:156) and the
\* TypeError of a fetch or a read that lost its connection.
MsgNotOk ==
    <<"F","a","i","l","e","d"," ","t","o"," ","a","n","a","l","y","z","e"," ","d","i","f","f",":"," ",
      "B","a","d"," ","R","e","q","u","e","s","t">>

ErrNotOk == [isError |-> TRUE, name |-> "Error", message |-> MsgNotOk]

ErrFailedToFetch ==
    [isError |-> TRUE, name |-> "TypeError",
     message |-> <<"F","a","i","l","e","d"," ","t","o"," ","f","e","t","c","h">>]

HookErrors == {ErrNotOk, ErrFailedToFetch}

\* Responses of the analysis route: a complete analysis, a pull request the
\* relevance gate refuses, a failure reported by an error event, and a
\* stream the route closes without a last event after an abort-type error
\* of the backend (route.ts:208-220).
HookStreams ==
    {<<StartEvent("pr-1"), NotesEvent(JStr(<<"fix bug">>), JStr(<<"better app">>)), CompleteEvent>>,
     <<StartEvent("pr-1"), MessageEvent>>,
     <<StartEvent("pr-1"), [Event("error") EXCEPT !.error = <<"rate limit">>]>>,
     <<StartEvent("pr-1"), ProgressEvent(<<"ok", "ok", "ok", "ok", "ok">>)>>}

NoCall == [pc |-> "none", wire |-> <<>>, buffer |-> <<>>, dispatched |-> <<>>, reset |-> FALSE]

InitHook ==
    /\ pc = "hook"
    /\ req = AnyRequest
    /\ status = 0
    /\ isClosed = FALSE
    /\ aborted = FALSE
    /\ ctrl = "none"
    /\ events = <<>>
    /\ responseQueue = <<>>
    /\ currentJson = <<>>
    /\ notesFound = FALSE
    /\ backend = [n |-> 0, plain |-> TRUE, text |-> TRUE]
    /\ hist = FreshHist
    /\ mgr = NoManager
    /\ pair = NoPair
    /\ lib = NoLib
    /\ \E hasDiff \in BOOLEAN :
          hook = [pc |-> "hook", hasDiff |-> hasDiff, state |-> AnalysisState(FALSE),
                  isAnalyzing |-> FALSE, calls |-> <<>>]

HookUnchanged ==
    UNCHANGED <<pc, req, status, isClosed, aborted, ctrl, events, responseQueue,
                currentJson, notesFound, backend, hist, mgr, pair, lib>>

\* useDiffAnalysis.ts:123-153: analyzeDiff up to the await of fetch; the
\* guard is the early return of lines 124-126.
AnalyzeDiff ==
    /\ pc = "hook"
    /\ Len(hook.calls) < Cardinality(HookCalls)
    /\ hook.hasDiff /\ ~hook.isAnalyzing
    /\ hook' = [hook EXCEPT !.isAnalyzing = TRUE,
                            !.state = AnalysisState(TRUE),
                            !.calls = Append(@, [NoCall EXCEPT !.pc = "fetching"])]
    /\ HookUnchanged

\* useDiffAnalysis.ts:142-165: fetch resolves with a response that is ok and
\* has a body.
FetchResolves(i, stream) ==
    /\ pc = "hook"
    /\ i \in DOMAIN hook.calls /\ hook.calls[i].pc = "fetching"
    /\ hook' = [hook EXCEPT !.calls[i].pc = "reading", !.calls[i].wire = Frames(stream)]
    /\ HookUnchanged

\* useDiffAnalysis.ts:142-161 and 167-168 with 188-198: fetch rejects, the
\* response is not ok, or a read rejects.
CallFails(i, e) ==
    /\ pc = "hook"
    /\ i \in DOMAIN hook.calls /\ hook.calls[i].pc \in {"fetching", "reading"}
    /\ hook.calls[i].pc = "fetching" \/ e = ErrFailedToFetch
    /\ hook' = [analyzeCatch(hook, e) EXCEPT !.calls[i].pc = "failed"]
    /\ HookUnchanged

\* The sizes of the next read of call R: the first character of a frame
\* alone, everything up to the end of a frame, or all that is left.
ReadSizes(R) ==
    {k \in 1..Len(R.wire) :
        \/ k = 1 /\ R.buffer = <<>>
        \/ k = Len(R.wire)
        \/ k > 1 /\ R.wire[k - 1] = NL /\ R.wire[k] = NL}

\* useDiffAnalysis.ts:167-187: reader.read() of call i returns the next k
\* characters.
CallReads(i, k) ==
    /\ pc = "hook"
    /\ i \in DOMAIN hook.calls /\ hook.calls[i].pc = "reading"
    /\ k \in ReadSizes(hook.calls[i])
    /\ LET R    == hook.calls[i]
           R2   == readLoopBody(R, SubSeq(R.wire, 1, k))
           news == SubSeq(R2.dispatched, Len(R.dispatched) + 1, Len(R2.dispatched))
       IN  hook' = [HandleAll(hook, news) EXCEPT
                       !.calls[i] = [R2 EXCEPT !.wire = SubSeq(R.wire, k + 1, Len(R.wire))]]
    /\ HookUnchanged

\* useDiffAnalysis.ts:167-170 and 196-198: reader.read() of call i returns
\* done.
CallDone(i) ==
    /\ pc = "hook"
    /\ i \in DOMAIN hook.calls /\ hook.calls[i].pc = "reading"
    /\ hook.calls[i].wire = <<>>
    /\ hook' = [analyzeFinally(hook) EXCEPT !.calls[i].pc = "done"]
    /\ HookUnchanged

\* useDiffAnalysis.ts:206-215  resetState, called by the effect and by the
\* Force Analysis button of DiffAnalyzer (sample-diffs/route.ts:559-573,
\* 582-585).
ResetState ==
    /\ pc = "hook"
    /\ hook' = [hook EXCEPT !.state = AnalysisState(FALSE),
                            !.isAnalyzing = FALSE,
                            !.calls = [i \in DOMAIN hook.calls |->
                                          [hook.calls[i] EXCEPT !.reset = TRUE]]]
    /\ HookUnchanged

NextHook ==
    \/ AnalyzeDiff
    \/ \E i \in DOMAIN hook.calls, stream \in HookStreams : FetchResolves(i, stream)
    \/ \E i \in DOMAIN hook.calls, e \in HookErrors : CallFails(i, e)
    \/ \E i \in DOMAIN hook.calls : \E k \in ReadSizes(hook.calls[i]) : CallReads(i, k)
    \/ \E i \in DOMAIN hook.calls : CallDone(i)
    \/ ResetState

SpecHook == InitHook /\ [][NextHook]_vars

---------------------------------------------------------------------------
(* C33, C34, C35 *)

\* Call i of analyzeDiff has a request in flight: its fetch or its read loop
\* has not ended.
InFlight(i) == hook.calls[i].pc \in {"fetching", "reading"}

\* C33 as stated: one instance of the hook has at most one analysis request
\* in flight at any time, over every sequence of analyzeDiff and resetState
\* calls and stream events.
C33_OneRequestInFlight ==
    pc = "hook" => Cardinality({i \in DOMAIN hook.calls : InFlight(i)}) <= 1

\* C34 as stated: once the read loop of the latest call of analyzeDiff has
\* ended, by the stream reporting done or by the request failing, the
\* hook's state has loading = false.
C34_LoadingClearedAtEnd ==
    (/\ pc = "hook"
     /\ hook.calls # <<>>
     /\ hook.calls[Len(hook.calls)].pc \in {"done", "failed"})
        => ~hook.state.loading

\* C35 as stated: a step of a call of analyzeDiff that began before
\* resetState ran leaves loading, error, notes, streamProgress and
\* messageInfo as they were.
C35_StaleEventsIgnored ==
    [][\A i \in DOMAIN hook.calls :
          (pc = "hook" /\ hook.calls[i].reset /\ hook'.calls[i] # hook.calls[i])
              => hook'.state = hook.state]_vars

---------------------------------------------------------------------------
(* C36 *)

\* The frame of an error event.
IsErrorFrame(frame) == Len(frame) >= 2 /\ frame[2] = HeadError

\* C36 as stated: the step in which the stream function of createSSEStream
\* settles, by returning or by throwing, leaves the channel closed
\* (manager.closed is true); when it throws, which is the step that calls
\* safeClose, at most one frame is written, the frame of an error event,
\* and it is written exactly when the catch called sendEvent, which it does
\* for an error that is not abort-type, and the channel was still open.
C36_SettledIsClosed ==
    [][(pc = "manager" /\ mgr.pc = "running" /\ mgr'.pc = "settled") =>
          /\ closed(mgr')
          /\ mgr'.closes # mgr.closes =>
                /\ Len(mgr'.frames) <= Len(mgr.frames) + 1
                /\ Len(mgr'.frames) > Len(mgr.frames) <=>
                      /\ Len(mgr'.sends) > Len(mgr.sends)
                      /\ ~closed(mgr) /\ mgr.ctrl = "readable"
                /\ Len(mgr'.frames) > Len(mgr.frames) =>
                      IsErrorFrame(mgr'.frames[Len(mgr'.frames)])]_vars

===========================================================================
